---------------------------- MODULE Spec2Model ----------------------------
(***************************************************************************)
(* A model of the autonomous agent of winastar1/agentIA-autonome:          *)
(*   - Planner.getNextTask / updateTaskStatus / isPlanComplete             *)
(*   - Orchestrator.processDirective / autonomousLoop / the four phases /  *)
(*     stop                                                                *)
(*   - EnhancedExecutor.executeTask, as the set of results one call can    *)
(*     return (for the Orchestrator) and attempt by attempt, and           *)
(*     executeWithRetry                                                    *)
(*   - SecureShellExecutor.isCommandAllowed / execute / addAllowedCommand  *)
(*     / removeAllowedCommand                                              *)
(*   - Planner.createPlan / revisePlan, from the reply of the model to     *)
(*     the plan                                                            *)
(*   - MemoryManager and PersistentMemoryManager: the three add            *)
(*     operations, the three reads and consolidate, with the memories      *)
(*     table of the database and its errors                                *)
(*   - Orchestrator.getState, and directives processed one after another   *)
(*                                                                         *)
(* JavaScript runs one callback to completion: another caller             *)
(* (processDirective, stop) or another loop can run only while a loop is   *)
(* suspended at an await on I/O.  For the loop the memory is the           *)
(* in-memory one (ENABLE_PERSISTENT_MEMORY=false, as in tests/setup.ts),   *)
(* so the awaits on the memory manager resolve without I/O (the memory     *)
(* managers are modelled on their own, with and without persistence) and   *)
(* the loop is suspended                                                   *)
(* only at its calls of the model (Think, createPlan, executeTask,         *)
(* evaluatePlanProgress, revisePlan), and once at the first await of       *)
(* autonomousLoop, where the caller of processDirective gets control back. *)
(* Every action of the Orchestrator below is the code between two such     *)
(* points.                                                                 *)
(*                                                                         *)
(* What can raise: ModelRouter.chat (no provider, API error), and          *)
(* executeTask where it builds its prompt before its try block (a task     *)
(* whose acceptanceCriteria, taken from the model's reply, is no array).   *)
(* The PersistentMemoryManager catches its database errors, the Critic and *)
(* the Executor catch the errors of their own chat calls, the dependencies *)
(* of a task are an array, and the listeners the repository registers      *)
(* (CommunicationServer) do not raise.  Hence no exception leaves          *)
(* autonomousLoop, and the catch block of processDirective (62-65) has no  *)
(* step here.                                                              *)
(***************************************************************************)
EXTENDS Integers, Sequences, FiniteSets, TLC

\* ------------------------------------------------------------------ bounds
\* config.agent.maxIterations (50 by default), here small
maxIterations == 3
\* config.agent.maxCostPerSession (10.0 by default), in units of cost
maxCostPerSession == 2
\* number of processDirective calls made on the instance
MaxCalls == 2
\* number of tasks in a plan the planning model returns to the loop
MaxLoopTasks == 2
\* the same where two calls are made
MaxReentryTasks == 1
\* the same in a long run
MaxLongTasks == 4
\* config.agent.maxIterations in a long run
MaxLongIterations == 5
\* number of tasks in a plan handed to the Planner alone
MaxTasks == 2
\* EnhancedExecutor.executeTask: const maxAttempts = 5
maxAttempts == 5
\* number of items in the tasks array of a reply to createPlan / revisePlan
MaxPlanItems == 2
\* number of revisePlan calls on the way of one plan
MaxRevisions == 1
\* MemoryManager / PersistentMemoryManager: maxWorkingMemorySize = 10
maxWorkingMemorySize == 10
\* MemoryManager: maxEpisodicMemorySize = 100
maxEpisodicMemorySize == 100
\* PersistentMemoryManager.searchSemanticMemory: limit = 5
searchLimit == 5
\* number of addToWorkingMemory calls
MaxWorkingAdds == 12
\* number of addToEpisodicMemory calls a caller makes
MaxEpisodicAdds == 1
\* number of addToSemanticMemory calls a caller makes
MaxSemanticAdds == 1
\* number of times a caller writes the importance of a Memory object it holds
MaxWrites == 1
\* number of database queries that raise
MaxDbErrors == 1
\* number of consolidate calls
MaxConsolidations == 1
\* number of getState calls
MaxSnapshots == 1

VARIABLES
  \* ---- Orchestrator
  isRunning,   \* Orchestrator.isRunning
  state,       \* Orchestrator.state (AgentState); currentPlan/currentTask are references
  plans,       \* the Plan objects that are still referenced, by plan id
  call,        \* per processDirective call: where it is suspended, and its locals
  emits,       \* the events emitted by the last step, in order
  hist,        \* per call, what has happened to it so far (history only)
  callCost,    \* the cost the provider charges per chat call in this run
  scope,       \* what the run looks at: how many calls are made, the iteration
               \* budget, and whether the chat calls of a directive are counted
  logs,        \* the warnings logged by the last step, in order
  remembered,  \* the entries the last step added to the memory, in order
  \* ---- Planner alone
  plan,        \* a Plan's tasks
  picked,      \* what getNextTask returned on the plan as it is now, or NotCalled
  \* ---- SecureShellExecutor
  allowedCommands,     \* SecureShellExecutor.allowedCommands
  enableShellSandbox,  \* config.security.enableShellSandbox
  command,             \* the command of the latest execute call
  result,              \* what that call returned
  ran,                 \* whether that call handed the command to the process runner
  child,               \* how the child process of that call ended (history only)
  lastChange,          \* the latest addAllowedCommand / removeAllowedCommand call
  executedSince,       \* whether execute was called after that call
  \* ---- EnhancedExecutor
  exec,                \* the executeTask call: its locals, and what it returned
  retrying,            \* the executeWithRetry call: its locals, and what it returned
  \* ---- Planner.createPlan / revisePlan
  planning,            \* the Plan objects, state.currentPlan, and the latest call
  \* ---- MemoryManager / PersistentMemoryManager
  manager,                 \* the class of the memory manager the calls are made on
  enablePersistentMemory,  \* config.agent.enablePersistentMemory
  workingMemory,           \* MemoryManager.workingMemory
  episodicMemory,          \* MemoryManager.episodicMemory
  semanticMemory,          \* MemoryManager.semanticMemory, in insertion order
  workingMemoryCache,      \* PersistentMemoryManager.workingMemoryCache
  db,                      \* the rows of the table memories
  returned,                \* the latest call on the manager and what it returned
  memHist,                 \* what has been asked of the manager so far (history only)
  \* ---- Orchestrator.getState
  snapshot             \* the object a getState call returned, and what it showed then

orchVars == <<isRunning, state, plans, call, emits, logs, remembered, hist, callCost,
             scope>>
plannerVars == <<plan, picked>>
shellVars == <<allowedCommands, enableShellSandbox, command, result, ran, child,
              lastChange, executedSince>>
execVars == <<exec, retrying>>
memoryVars == <<manager, enablePersistentMemory, workingMemory, episodicMemory,
               semanticMemory, workingMemoryCache, db, returned, memHist>>
moreVars == <<planning, memoryVars, snapshot>>
vars == <<orchVars, plannerVars, shellVars, execVars, moreVars>>

\* ------------------------------------------------------------------ Planner
\* A dependency id that is the id of no task of the plan
AbsentId == 0
NoTask == [id |-> 0, status |-> "none", priority |-> 0, dependencies |-> {}]

Statuses == {"pending", "in_progress", "completed", "failed"}

\* plan.tasks.find(t => t.id === depId): the first task with that id, or NoTask
FindTask(tasks, id) ==
  IF \E i \in 1..Len(tasks) : tasks[i].id = id
  THEN tasks[CHOOSE i \in 1..Len(tasks) :
               tasks[i].id = id /\ \A j \in 1..(i-1) : tasks[j].id # id]
  ELSE NoTask

\* a mutant: a dependency that resolves to no task counts as met
DependenciesMetLoose(tasks, task) ==
  \A depId \in task.dependencies :
    FindTask(tasks, depId).status \in {"completed", "none"}

\* a mutant: a dependency that has failed counts as met
DependenciesMetWhenSettled(tasks, task) ==
  \A depId \in task.dependencies :
    FindTask(tasks, depId).status \in {"completed", "failed"}

\* the filter callback of getNextTask: depTask?.status === 'completed' for every dependency
DependenciesMet(tasks, task) ==
  \A depId \in task.dependencies : FindTask(tasks, depId).status = "completed"

IsAvailable(tasks, task) ==
  task.status = "pending" /\ DependenciesMet(tasks, task)

\* Array.prototype.sort((a, b) => b.priority - a.priority): stable, descending.
\* Insertion from the right end keeps equal priorities in list order.
RECURSIVE SortByPriority(_)
\* a mutant: a task goes behind the later tasks of its priority (an unstable sort)
InsertBehindEqual(t, sorted) ==
  LET before == SelectSeq(sorted, LAMBDA u : u.priority >= t.priority)
      after  == SelectSeq(sorted, LAMBDA u : u.priority < t.priority)
  IN before \o <<t>> \o after
InsertByPriority(t, sorted) ==
  LET before == SelectSeq(sorted, LAMBDA u : u.priority > t.priority)
      after  == SelectSeq(sorted, LAMBDA u : u.priority <= t.priority)
  IN before \o <<t>> \o after
SortByPriority(tasks) ==
  IF tasks = <<>> THEN <<>>
  ELSE InsertByPriority(Head(tasks), SortByPriority(Tail(tasks)))

\* Planner.getNextTask
getNextTask(tasks) ==
  LET availableTasks == SelectSeq(tasks, LAMBDA task : IsAvailable(tasks, task))
  IN IF Len(availableTasks) = 0 THEN NoTask
     ELSE SortByPriority(availableTasks)[1]

\* Planner.updateTaskStatus: the first task with that id, if any, gets the status
updateTaskStatus(tasks, taskId, status) ==
  IF FindTask(tasks, taskId) = NoTask THEN tasks
  ELSE LET i == CHOOSE k \in 1..Len(tasks) :
                  tasks[k].id = taskId /\ \A j \in 1..(k-1) : tasks[j].id # taskId
       IN [tasks EXCEPT ![i].status = status]

\* a mutant: only completed tasks count
isPlanCompleteAllCompleted(tasks) ==
  \A i \in 1..Len(tasks) : tasks[i].status = "completed"

\* Planner.isPlanComplete
isPlanComplete(tasks) ==
  \A i \in 1..Len(tasks) : tasks[i].status \in {"completed", "failed"}

\* ---- the Planner on a plan of its own
\* no getNextTask call has returned since the plan last changed
NotCalled == [id |-> 0, status |-> "not_called", priority |-> 0, dependencies |-> {}]

PlannerPriorities == {1, 2}

\* the plans createPlan can build: every task pending, ids in list order, any
\* priorities, any dependency ids (ids of the plan's tasks, the task's own id, or
\* AbsentId, the id of no task)
PlannerPlans ==
  UNION {
    { [i \in 1..n |-> [id |-> i, status |-> "pending", priority |-> prio[i],
                       dependencies |-> deps[i]]] :
        prio \in [1..n -> PlannerPriorities],
        deps \in [1..n -> SUBSET (0..n)] }
    : n \in 0..MaxTasks }

\* Planner.getNextTask, called on the plan
GetNextTask ==
  /\ picked' = getNextTask(plan)
  /\ UNCHANGED <<plan, orchVars, shellVars, execVars, moreVars>>

\* Orchestrator.actPhase 259-267: the next task, if there is one, is marked in_progress
ActPick ==
  LET nextTask == getNextTask(plan) IN
  /\ plan' = IF nextTask = NoTask THEN plan
             ELSE updateTaskStatus(plan, nextTask.id, "in_progress")
  /\ picked' = IF nextTask = NoTask THEN NoTask ELSE NotCalled
  /\ UNCHANGED <<orchVars, shellVars, execVars, moreVars>>

\* Orchestrator.actPhase 286-311: a task that was started gets completed or failed
ActFinish(i, success) ==
  /\ i \in 1..Len(plan)
  /\ plan[i].status = "in_progress"
  /\ plan' = updateTaskStatus(plan, plan[i].id, IF success THEN "completed" ELSE "failed")
  /\ picked' = NotCalled
  /\ UNCHANGED <<orchVars, shellVars, execVars, moreVars>>


\* ------------------------------------------------------------------ EnhancedExecutor
\* The results one executeTask call can return when every chat call that returns
\* costs c: the attempts loop, with the outcome of each call chosen freely.
\*   primary chat: raises | returns tool calls | returns an answer | returns nothing
\*   verification chat: raises | COMPLETE... | anything else
ExecResult(success, cost, error) == [success |-> success, cost |-> cost, error |-> error]

RECURSIVE ExecAttempts(_, _, _)
ExecAttempts(c, attempts, totalCost) ==
  IF attempts >= maxAttempts
  THEN {ExecResult(FALSE, totalCost, "max_attempts")}
  ELSE
    LET a == attempts + 1
        \* the catch block of the attempt
        Caught(cost) == IF a >= maxAttempts
                        THEN {ExecResult(FALSE, cost, "failed_after_attempts")}
                        ELSE ExecAttempts(c, a, cost)
        afterPrimary == totalCost + c
        afterVerify  == afterPrimary + c
    IN  Caught(totalCost)
        \cup
        (IF afterPrimary > maxCostPerSession
         THEN {ExecResult(FALSE, afterPrimary, "cost_limit")}
         ELSE \* tool calls (or an empty answer): the next attempt
              ExecAttempts(c, a, afterPrimary)
              \cup \* JSON.parse of a tool call's arguments, or the verification chat, raises
              Caught(afterPrimary)
              \cup \* verified COMPLETE
              {ExecResult(TRUE, afterVerify, "none")}
              \cup \* verified otherwise
              (IF a >= maxAttempts
               THEN {ExecResult(FALSE, afterVerify, "incomplete_after_attempts")}
               ELSE ExecAttempts(c, a, afterVerify)))

\* the costs a chat call can have in a run: free, one unit, or more than the whole cap
CallCosts == {0, 1, maxCostPerSession + 1}

\* EnhancedExecutor.executeTask, per cost of a call
executeTask == [c \in CallCosts |-> ExecAttempts(c, 0, 0)]

\* ---- executeTask attempt by attempt, with its tool calls and its result in full
\* number of tool calls in one reply of the model
MaxToolCallsPerReply == 2
\* number of tool calls the model requests during one executeTask call
MaxRequested == 2
\* number of tasks of the plan the executor is run on
MaxExecTasks == 2
\* the largest maxRetries executeWithRetry is called with
MaxRetries == 2

\* a tool call of a reply: the tool returns, the tool raises, no tool has the name,
\* or the arguments are a string JSON.parse rejects
ToolKinds == {"ok", "raises", "notFound", "badArguments"}
ToolReplies ==
  UNION {[1..n -> ToolKinds] : n \in 1..MaxToolCallsPerReply}

\* texts of a verification reply, as sequences of characters
V_COMPLETE == <<"C", "O", "M", "P", "L", "E", "T", "E">>
V_Complete == <<"C", "o", "m", "p", "l", "e", "t", "e">>
V_INCOMPLETE == <<"I", "N">> \o V_COMPLETE
V_Incomplete == <<"I", "n", "c", "o", "m", "p", "l", "e", "t", "e">>
V_NO == <<"N", "O">>
VerificationTexts == {V_COMPLETE, V_Complete, V_INCOMPLETE, V_Incomplete, V_NO}

\* String.prototype.toUpperCase, on the letters of these texts
LowerLetters == <<"c", "e", "i", "l", "m", "n", "o", "p", "t">>
UpperLetters == <<"C", "E", "I", "L", "M", "N", "O", "P", "T">>
toUpperCase(text) ==
  [i \in 1..Len(text) |->
     IF \E k \in 1..Len(LowerLetters) : LowerLetters[k] = text[i]
     THEN UpperLetters[CHOOSE k \in 1..Len(LowerLetters) : LowerLetters[k] = text[i]]
     ELSE text[i]]

\* String.prototype.startsWith
startsWith(text, prefix) ==
  /\ Len(prefix) <= Len(text)
  /\ \A i \in 1..Len(prefix) : text[i] = prefix[i]

\* a mutant: the text holds COMPLETE somewhere
VerifiedCompleteAnywhere(text) ==
  \E i \in 0..Len(text) :
    i + Len(V_COMPLETE) <= Len(text)
    /\ startsWith(SubSeq(toUpperCase(text), i + 1, Len(text)), V_COMPLETE)

\* verificationResponse.content.toUpperCase().startsWith('COMPLETE')
VerifiedComplete(text) == startsWith(toUpperCase(text), V_COMPLETE)

\* the error of an ExecutionResult in its parts: the fixed text, the attempt count
\* it names (0: none), and the text appended to it
ExecError(text, count, detail) == [text |-> text, attempts |-> count, detail |-> detail]
NoExecError == ExecError("undefined", 0, <<>>)
NoResult == [success |-> FALSE, output |-> "not returned", error |-> NoExecError,
             toolCalls |-> <<>>, tokensUsed |-> 0, cost |-> 0]
\* the latest attempt: what the primary call did, and the verification text if any
NoAttempt == [kind |-> "none", tools |-> 0, verification |-> <<>>]

\* no executeTask call is running; task: the id of the task that is executed.
\* History only: requested, the tool calls the loop has come to, in order; last,
\* the latest attempt; verdicts, whether every verification so far reported
\* INCOMPLETE ("none": no verification yet)
NoExec == [pc |-> "idle", task |-> 0, attempts |-> 0, totalTokensUsed |-> 0,
           totalCost |-> 0, toolCalls |-> <<>>, lastResponse |-> "",
           requested |-> <<>>, last |-> NoAttempt, verdicts |-> "none",
           result |-> NoResult]

\* executeTask up to its while loop
StartedExec(taskId) == [NoExec EXCEPT !.pc = "loop", !.task = taskId]

\* return { success, output, error, toolCalls, tokensUsed, cost }
Return(e, success, output, error) ==
  [e EXCEPT !.pc = "returned",
            !.result = [success |-> success, output |-> output, error |-> error,
                        toolCalls |-> e.toolCalls, tokensUsed |-> e.totalTokensUsed,
                        cost |-> e.totalCost]]

\* a mutant of the catch block: the error is raised again, out of executeTask
CatchRethrows(e, message) == [e EXCEPT !.pc = "thrown"]

\* the catch block of an attempt, 571-592, and the loop condition after it
Catch(e, message) ==
  IF e.attempts >= maxAttempts
  THEN Return(e, FALSE, "null", ExecError("Failed after ", maxAttempts, message))
  ELSE e

\* a mutant: the loop goes on whatever attempts is
ContinueWithoutTest(e) == e

\* `continue`, or the end of the loop body: the loop condition, and 595-602
Continue(e) ==
  IF e.attempts < maxAttempts THEN e
  ELSE Return(e, FALSE, e.lastResponse,
              ExecError("Max attempts reached without completion", 0, <<>>))

\* the head of an attempt: attempts++; `kind` is what the primary call will do
Begin(e, kind, tools) ==
  [e EXCEPT !.attempts = @ + 1,
            !.last = [kind |-> kind, tools |-> tools, verification |-> <<>>]]

\* a chat call has returned: its tokens (one unit) and its cost are added
Charge(e, cost) ==
  [e EXCEPT !.totalTokensUsed = @ + 1, !.totalCost = @ + cost]

\* 419-421: the primary call has returned
Primary(e, cost, content) ==
  [Charge(e, cost) EXCEPT !.lastResponse = content]

\* 423-437
CostLimitExceeded(e) ==
  Return(e, FALSE, "null", ExecError("Cost limit exceeded: ", 0, <<>>))

\* the for loop over response.toolCalls, 442-490: a tool that is not found is
\* skipped, a tool call whose arguments do not parse raises out of the loop
RECURSIVE RunTools(_, _)
RunTools(e, tools) ==
  IF tools = <<>> THEN [e |-> e, raised |-> FALSE]
  ELSE LET kind == Head(tools)
           e1 == [e EXCEPT !.requested = Append(@, kind)]
           request == Len(e1.requested)
       IN IF kind = "badArguments" THEN [e |-> e1, raised |-> TRUE]
          ELSE IF kind = "notFound" THEN RunTools(e1, Tail(tools))
          ELSE RunTools([e1 EXCEPT !.toolCalls =
                           Append(@, [request |-> request,
                                      outcome |-> IF kind = "ok" THEN "result"
                                                  ELSE "error"])],
                        Tail(tools))

\* an attempt whose primary call raises
AttemptRaised(e) ==
  Catch(Begin(e, "raised", 0), <<"error.message">>)

\* an attempt whose primary call returns tool calls (with or without a text)
AttemptTools(e, cost, content, tools) ==
  LET e1 == Primary(Begin(e, "tools", Len(tools)), cost, content) IN
  IF e1.totalCost > maxCostPerSession THEN CostLimitExceeded(e1)
  ELSE LET done == RunTools(e1, tools)
       IN IF done.raised THEN Catch(done.e, <<"error.message">>) ELSE Continue(done.e)

\* an attempt whose primary call returns neither tool calls nor a text
AttemptEmpty(e, cost) ==
  LET e1 == Primary(Begin(e, "empty", 0), cost, "") IN
  IF e1.totalCost > maxCostPerSession THEN CostLimitExceeded(e1)
  ELSE Continue(e1)

\* an attempt whose primary call returns a text and no tool calls, and whose
\* verification call raises
AttemptUnverified(e, cost) ==
  LET e1 == Primary(Begin(e, "answer", 0), cost, "response.content") IN
  IF e1.totalCost > maxCostPerSession THEN CostLimitExceeded(e1)
  ELSE Catch(e1, <<"error.message">>)

\* an attempt whose primary call returns a text and no tool calls, and whose
\* verification call returns the text `verification`
AttemptVerified(e, cost, verification) ==
  LET e1 == Primary(Begin(e, "answer", 0), cost, "response.content") IN
  IF e1.totalCost > maxCostPerSession THEN CostLimitExceeded(e1)
  ELSE LET e2 == [Charge(e1, cost) EXCEPT
                    !.last.verification = verification,
                    !.verdicts = IF startsWith(toUpperCase(verification), V_INCOMPLETE)
                                    /\ @ \in {"none", "incomplete"}
                                 THEN "incomplete" ELSE "other"]
       IN IF VerifiedComplete(verification)
          THEN Return(e2, TRUE, "response.content", NoExecError)
          ELSE IF e2.attempts >= maxAttempts
               THEN Return(e2, FALSE, "response.content",
                           ExecError("Task incomplete after ", maxAttempts, verification))
               ELSE Continue(e2)

\* no executeWithRetry call is running
NoRetrying == [pc |-> "idle", maxRetries |-> 0, retry |-> 0, lastError |-> NoExecError,
               calls |-> 0, result |-> NoResult]

\* ------------------------------------------------------------------ SecureShellExecutor
\* A command is a sequence of characters (strings of length one).

\* \s of a regular expression
IsSpace(ch) == ch \in {" ", "\t", "\n"}

\* String.prototype.trim
RECURSIVE TrimStart(_)
TrimStart(s) == IF s # <<>> /\ IsSpace(Head(s)) THEN TrimStart(Tail(s)) ELSE s
RECURSIVE TrimEnd(_)
TrimEnd(s) ==
  IF s # <<>> /\ IsSpace(s[Len(s)]) THEN TrimEnd(SubSeq(s, 1, Len(s) - 1)) ELSE s
Trim(s) == TrimEnd(TrimStart(s))

\* the literal lit stands in s at position i
LitAt(s, i, lit) ==
  /\ i + Len(lit) - 1 <= Len(s)
  /\ \A k \in 1..Len(lit) : s[i + k - 1] = lit[k]

\* the positions where a match of \s* (min = 0) or \s+ (min = 1) that begins at i
\* can end: the position after it
AfterSpaces(s, i, min) ==
  {j \in (i + min)..(Len(s) + 1) : \A k \in i..(j - 1) : IsSpace(s[k])}

\* the positions where a match of .* that begins at i can end: . is any character
\* but a line terminator
AfterAny(s, i) ==
  {j \in i..(Len(s) + 1) : \A k \in i..(j - 1) : s[k] # "\n"}

\* RegExp.prototype.test for a pattern made of two or three literals with a gap
\* between them: gap "s+" is \s+, "s*" is \s*, ".*" is .*, "" is nothing
AfterGap(s, i, gap) ==
  IF gap = "s+" THEN AfterSpaces(s, i, 1)
  ELSE IF gap = "s*" THEN AfterSpaces(s, i, 0)
  ELSE IF gap = ".*" THEN AfterAny(s, i)
  ELSE {i}

\* the positions after a match, begun at one of the positions from, of the gap
\* followed by the literal
AfterPart(s, from, part) ==
  {j + Len(part.lit) : j \in {k \in UNION {AfterGap(s, i, part.gap) : i \in from} :
                                 LitAt(s, k, part.lit)}}

RECURSIVE AfterParts(_, _, _)
AfterParts(s, from, parts) ==
  IF parts = <<>> THEN from
  ELSE AfterParts(s, AfterPart(s, from, Head(parts)), Tail(parts))

\* pattern.test(s): a match may begin anywhere
Test(pattern, s) == AfterParts(s, 1..(Len(s) + 1), pattern.parts) # {}

Lit(lit) == [gap |-> "", lit |-> lit]
Then(gap, lit) == [gap |-> gap, lit |-> lit]

\* the list dangerousPatterns, each with its source text
dangerousPatterns == <<
  [source |-> "rm\\s+-rf\\s+\\/",
   parts |-> <<Lit(<<"r","m">>), Then("s+", <<"-","r","f">>), Then("s+", <<"/">>)>>],
  [source |-> ">\\s*\\/dev\\/sd",
   parts |-> <<Lit(<<">">>), Then("s*", <<"/","d","e","v","/","s","d">>)>>],
  [source |-> "mkfs", parts |-> <<Lit(<<"m","k","f","s">>)>>],
  [source |-> "dd\\s+if=",
   parts |-> <<Lit(<<"d","d">>), Then("s+", <<"i","f","=">>)>>],
  [source |-> "curl.*\\|\\s*bash",
   parts |-> <<Lit(<<"c","u","r","l">>), Then(".*", <<"|">>),
               Then("s*", <<"b","a","s","h">>)>>],
  [source |-> "wget.*\\|\\s*sh",
   parts |-> <<Lit(<<"w","g","e","t">>), Then(".*", <<"|">>), Then("s*", <<"s","h">>)>>],
  [source |-> "eval", parts |-> <<Lit(<<"e","v","a","l">>)>>],
  [source |-> "exec", parts |-> <<Lit(<<"e","x","e","c">>)>>],
  [source |-> "fork", parts |-> <<Lit(<<"f","o","r","k">>)>>],
  [source |-> ":\\(\\)\\{.*:\\|:&\\}",
   parts |-> <<Lit(<<":","(",")","{">>), Then(".*", <<":","|",":","&","}">>)>> ] >>

\* a mutant: the command is split on blanks only
RECURSIVE BaseCommandSplitOnBlanks(_)
BaseCommandSplitOnBlanks(s) ==
  IF s = <<>> \/ IsSpace(Head(s)) THEN <<>>
  ELSE <<Head(s)>> \o BaseCommandSplitOnBlanks(Tail(s))

\* trimmedCommand.split(/[\s|&;]/)[0]: the characters before the first separator
IsSeparator(ch) == IsSpace(ch) \/ ch \in {"|", "&", ";"}
RECURSIVE BaseCommand(_)
BaseCommand(s) ==
  IF s = <<>> \/ IsSeparator(Head(s)) THEN <<>>
  ELSE <<Head(s)>> \o BaseCommand(Tail(s))

\* the reason of a validation, and the error of a result, in their parts
NoReason == [text |-> "none", pattern |-> "", baseCommand |-> <<>>, allowed |-> {}]
NoError == [text |-> "none", ms |-> 0, reason |-> NoReason]
\* no child process, and no call of addAllowedCommand / removeAllowedCommand
NoChild == "none"
NoChange == [op |-> "none", command |-> <<>>]

\* a mutant: the whitelist is checked before the dangerous patterns
isCommandAllowedWhitelistFirst(cmd, allowed, sandbox) ==
  IF ~sandbox THEN [allowed |-> TRUE, reason |-> NoReason]
  ELSE
    LET trimmedCommand == Trim(cmd)
        matching == {i \in 1..Len(dangerousPatterns) :
                       Test(dangerousPatterns[i], trimmedCommand)}
        baseCommand == BaseCommand(trimmedCommand)
    IN IF baseCommand \notin allowed
       THEN [allowed |-> FALSE,
             reason |-> [NoReason EXCEPT
                           !.text = "is not in the allowed list. Allowed commands: ",
                           !.baseCommand = baseCommand,
                           !.allowed = allowed]]
       ELSE IF matching # {}
            THEN LET first == CHOOSE i \in matching : \A k \in matching : i <= k
                 IN [allowed |-> FALSE,
                     reason |-> [NoReason EXCEPT
                                   !.text = "Command contains dangerous pattern: ",
                                   !.pattern = dangerousPatterns[first].source]]
            ELSE [allowed |-> TRUE, reason |-> NoReason]

\* a mutant: the sandbox flag is not read
isCommandAllowedFlagIgnored(cmd, allowed, sandbox) ==
  isCommandAllowedWhitelistFirst(cmd, allowed, TRUE)

\* SecureShellExecutor.isCommandAllowed
isCommandAllowed(cmd, allowed, sandbox) ==
  IF ~sandbox THEN [allowed |-> TRUE, reason |-> NoReason]
  ELSE
    LET trimmedCommand == Trim(cmd)
        matching == {i \in 1..Len(dangerousPatterns) :
                       Test(dangerousPatterns[i], trimmedCommand)}
        baseCommand == BaseCommand(trimmedCommand)
    IN IF matching # {}
       THEN LET first == CHOOSE i \in matching : \A k \in matching : i <= k
            IN [allowed |-> FALSE,
                reason |-> [NoReason EXCEPT
                              !.text = "Command contains dangerous pattern: ",
                              !.pattern = dangerousPatterns[first].source]]
       ELSE IF baseCommand \notin allowed
            THEN [allowed |-> FALSE,
                  reason |-> [NoReason EXCEPT
                                !.text = "is not in the allowed list. Allowed commands: ",
                                !.baseCommand = baseCommand,
                                !.allowed = allowed]]
            ELSE [allowed |-> TRUE, reason |-> NoReason]

\* config.security.maxShellExecutionTime, in ms
maxShellExecutionTime == 30000

\* how the child process of an allowed command ends
Outcomes == {"exited", "killed", "failed"}

\* a mutant: a killed child is reported like any other failure
executeKilledAsFailure(validation, outcome) ==
  IF ~validation.allowed
  THEN [ran |-> FALSE,
        result |-> [success |-> FALSE, stdout |-> "undefined",
                    error |-> [NoError EXCEPT !.text = "Security policy violation: ",
                                              !.reason = validation.reason]]]
  ELSE [ran |-> TRUE,
        result |-> IF outcome = "exited"
                   THEN [success |-> TRUE, stdout |-> "stdout", error |-> NoError]
                   ELSE [success |-> FALSE, stdout |-> "error.stdout",
                         error |-> [NoError EXCEPT !.text = "error.message"]]]

\* SecureShellExecutor.execute after the validation: the result, and whether the
\* command was handed to execAsync
execute(validation, outcome) ==
  IF ~validation.allowed
  THEN [ran |-> FALSE,
        result |-> [success |-> FALSE, stdout |-> "undefined",
                    error |-> [NoError EXCEPT !.text = "Security policy violation: ",
                                              !.reason = validation.reason]]]
  ELSE [ran |-> TRUE,
        result |-> IF outcome = "exited"
                   THEN [success |-> TRUE, stdout |-> "stdout", error |-> NoError]
                   ELSE IF outcome = "killed"
                   THEN [success |-> FALSE, stdout |-> "error.stdout",
                         error |-> [NoError EXCEPT !.text = "Command timed out after ",
                                                   !.ms = maxShellExecutionTime]]
                   ELSE [success |-> FALSE, stdout |-> "error.stdout",
                         error |-> [NoError EXCEPT !.text = "error.message"]]]

\* no execute call has returned
NotExecuted == [success |-> FALSE, stdout |-> "undefined",
                error |-> [NoError EXCEPT !.text = "not executed"]]

\* ---- the commands of the model
W_ls == <<"l", "s">>
W_rm == <<"r", "m">>
W_rf == <<"-", "r", "f">>
W_root == <<"/">>
W_curl == <<"c", "u", "r", "l">>
W_bash == <<"b", "a", "s", "h">>
\* the words of a command; ls comes in as the command chained in front
Words == {W_rm, W_rf, W_root, W_curl, W_bash}
\* the names a whitelist is made of
CommandNames == {W_ls, W_rm, W_curl, W_bash}
\* between two words: a blank, or a pipe
Joins == {<<" ">>, <<" ", "|", " ">>}
\* before the first word: nothing, a blank, or a harmless command chained with ;
Prefixes == {<<>>, <<" ">>, W_ls \o <<";", " ">>}
\* number of words of a command after its prefix
MaxWords == 3

RECURSIVE WordLists(_)
WordLists(n) ==
  IF n = 1 THEN Words
  ELSE LET shorter == WordLists(n - 1)
       IN shorter \cup {l \o j \o w : l \in shorter, j \in Joins, w \in Words}

\* the fork bomb as it is usually written, `:(){ :|:& };:`, and without its blanks
ForkBomb == <<":", "(", ")", "{", " ", ":", "|", ":", "&", " ", "}", ";", ":">>
ForkBombNoBlanks == <<":", "(", ")", "{", ":", "|", ":", "&", "}", ";", ":">>
\* `sleep 60`
W_sleep == <<"s", "l", "e", "e", "p">>
SleepSixty == W_sleep \o <<" ", "6", "0">>

Commands == {pre \o l : pre \in Prefixes, l \in WordLists(MaxWords)}
            \cup {ForkBomb, ForkBombNoBlanks, SleepSixty}

\* config.security.allowedShellCommands when ALLOWED_SHELL_COMMANDS is not set
DefaultAllowedCommands ==
  {W_ls, <<"p","w","d">>, <<"c","a","t">>, <<"e","c","h","o">>, <<"g","r","e","p">>,
   <<"f","i","n","d">>, <<"w","c">>, <<"h","e","a","d">>, <<"t","a","i","l">>,
   <<"d","a","t","e">>}

\* ------------------------------------------------------------------ Orchestrator
Calls == 1..MaxCalls
NoPlan == 0
NoRef == <<0, 0>>
PlanIds == 1..(MaxCalls + 2)

Phases == {"idle", "thinking", "planning", "executing", "reflecting", "completed"}
WorkPhases == {"thinking", "planning", "executing", "reflecting"}

\* calls: the processDirective calls made; iterations: config.agent.maxIterations;
\* traced: whether hist counts the chat calls of a directive and what they cost
Scope(calls) == [calls |-> calls, iterations |-> maxIterations, traced |-> FALSE]

\* a call that is not inside autonomousLoop is at one of these
OutsideLoop == {"new", "returned"}

NewCall == [pc |-> "new", taskRef |-> NoRef, failedCount |-> 0, planArg |-> NoPlan]
\* accepted: the call passed the isRunning check; stopped: agent_stopped events it
\* has emitted; bodies: iterations it has started; stopRequested: stop() was called
\* while it was in the loop (the last two are forgotten when the call returns);
\* answered: some chat call made for the directive has returned a reply; spent: the
\* cost of the chat calls made for the directive (both only where scope.traced)
NewHist == [accepted |-> FALSE, stopped |-> 0, bodies |-> 0, stopRequested |-> FALSE,
            answered |-> FALSE, spent |-> 0]

\* the Orchestrator's fields as one value, with no event emitted yet in this step
Now == [isRunning |-> isRunning, state |-> state, plans |-> plans, call |-> call,
        hist |-> hist, emits |-> <<>>, logs |-> <<>>, remembered |-> <<>>]

\* the AgentState the constructor builds
NewState ==
  [currentPhase |-> "idle", currentPlan |-> NoPlan, currentTask |-> NoRef,
   iterationCount |-> 0, totalCost |-> 0]

\* What an AgentState object s shows to whoever holds it: its own fields, and
\* through its references the tasks of the Plan object and the Task object.
Shown(s, objects) ==
  [currentPhase |-> s.currentPhase,
   iterationCount |-> s.iterationCount,
   totalCost |-> s.totalCost,
   currentPlan |-> IF s.currentPlan = NoPlan THEN <<>>
                   ELSE objects[s.currentPlan].tasks,
   currentTask |-> IF s.currentTask = NoRef THEN NoTask
                   ELSE objects[s.currentTask[1]].tasks[s.currentTask[2]]]

\* taken: the getState calls so far; state: the object the latest one returned;
\* seen: what that object showed when it was returned (history only)
NoSnapshot == [taken |-> 0, state |-> NewState, seen |-> Shown(NewState, <<>>)]

\* the plans something still refers to
Live(c) ==
  ({c.state.currentPlan, c.state.currentTask[1],
    snapshot.state.currentPlan, snapshot.state.currentTask[1]}
   \cup {c.call[p].taskRef[1] : p \in Calls}
   \cup {c.call[p].planArg : p \in Calls}) \ {NoPlan}

\* the step's outcome becomes the next state (c0 is evaluated once)
Commit(c0) ==
  \E c \in {c0} :
  /\ isRunning' = c.isRunning
  /\ state' = c.state
  /\ plans' = [i \in Live(c) |-> c.plans[i]]
  /\ call' = c.call
  /\ hist' = c.hist
  /\ emits' = c.emits
  /\ logs' = c.logs
  /\ remembered' = c.remembered
  /\ UNCHANGED <<callCost, scope, plannerVars, shellVars, execVars, moreVars>>

\* EventEmitter.emit
Emit(c, p, name, arg) ==
  [c EXCEPT !.emits = Append(@, [name |-> name, by |-> p, arg |-> arg])]

\* logger.warn
Warn(c, message) == [c EXCEPT !.logs = Append(@, message)]

\* memoryManager.addToWorkingMemory / addToEpisodicMemory: the entry's type and the
\* fixed head of its text
Remember(c, p, type, text) ==
  [c EXCEPT !.remembered = Append(@, [type |-> type, text |-> text, by |-> p])]

\* a chat call made for the directive of p has returned a reply that cost `cost`
Answered(c, p, cost) ==
  IF scope.traced
  THEN [c EXCEPT !.hist[p].answered = TRUE, !.hist[p].spent = @ + cost]
  ELSE c

\* executeTask has returned: its chat calls have cost `cost` together
Executed(c, p, cost) ==
  IF scope.traced THEN [c EXCEPT !.hist[p].spent = @ + cost] ELSE c

SetPhase(c, p, phase) ==
  Emit([c EXCEPT !.state.currentPhase = phase], p, "phase_changed", phase)

Suspend(c, p, pc) == [c EXCEPT !.call[p].pc = pc]

CurrentTasks(c) == c.plans[c.state.currentPlan].tasks

\* uuidv4() for a plan: an id nothing refers to
FreshPlanId(c) == CHOOSE i \in PlanIds :
                    i \notin DOMAIN c.plans /\ \A j \in 1..(i-1) : j \in DOMAIN c.plans

\* this.planner.updateTaskStatus(this.state.currentPlan, taskRef's id, status):
\* task ids are uuids, so the task is found only in the plan it belongs to
UpdateCurrentPlan(c, taskRef, status) ==
  IF c.state.currentPlan # NoPlan /\ c.state.currentPlan = taskRef[1]
  THEN [c EXCEPT !.plans[taskRef[1]].tasks = updateTaskStatus(@, taskRef[2], status)]
  ELSE c

\* a mutant of the finally block: the call returns, isRunning stays, no event
FinallySilent(c, p) ==
  [c EXCEPT !.call[p] = [NewCall EXCEPT !.pc = "returned"],
            !.hist[p] = [NewHist EXCEPT !.accepted = TRUE,
                                        !.answered = c.hist[p].answered,
                                        !.spent = c.hist[p].spent]]

\* processDirective, finally: isRunning = false; emit agent_stopped; the call returns
Finally(c, p) ==
  Emit([c EXCEPT !.isRunning = FALSE,
                 !.call[p] = [NewCall EXCEPT !.pc = "returned"],
                 !.hist[p] = [NewHist EXCEPT !.accepted = TRUE,
                                             !.stopped = c.hist[p].stopped + 1,
                                             !.answered = c.hist[p].answered,
                                             !.spent = c.hist[p].spent]],
       p, "agent_stopped", "none")

\* autonomousLoop after the while loop: currentPhase = 'completed', then return
AfterLoop(c, p) ==
  Finally([c EXCEPT !.state.currentPhase = "completed"], p)

\* thinkPhase up to its chat call
ThinkStart(c, p) == Suspend(SetPhase(c, p, "thinking"), p, "think_chat")

\* a mutant of the loop head: the cost check is missing
LoopHeadNoCostCheck(c, p, timedOut) ==
  IF c.state.iterationCount < scope.iterations
  THEN LET c1 == [c EXCEPT !.state.iterationCount = @ + 1, !.hist[p].bodies = @ + 1]
       IN IF timedOut THEN AfterLoop(Warn(c1, "Max execution time reached"), p)
          ELSE ThinkStart(c1, p)
  ELSE AfterLoop(Warn(c, "Max iterations reached"), p)

\* autonomousLoop: the while condition, the budget checks, and the start of Think
LoopHead(c, p, timedOut) ==
  IF c.state.iterationCount < scope.iterations
  THEN LET c1 == [c EXCEPT !.state.iterationCount = @ + 1, !.hist[p].bodies = @ + 1]
       IN IF timedOut THEN AfterLoop(Warn(c1, "Max execution time reached"), p)
          ELSE IF c1.state.totalCost > maxCostPerSession
               THEN AfterLoop(Emit(Warn(c1, "Max cost per session reached"),
                                   p, "cost_limit_reached", "none"), p)
               ELSE ThinkStart(c1, p)
  ELSE AfterLoop(Warn(c, "Max iterations reached"), p)

\* the end of an iteration: consolidate() every 10th iteration is not awaited and
\* touches no field of the Orchestrator; control is back at the while condition
IterEnd(c, p, timedOut) == LoopHead(c, p, timedOut)

\* reflectPhase up to critic.evaluatePlanProgress
ReflectStart(c, p, timedOut) ==
  LET c1 == SetPhase(c, p, "reflecting") IN
  IF c1.state.currentPlan = NoPlan THEN IterEnd(c1, p, timedOut)
  ELSE
    LET tasks == CurrentTasks(c1)
        completedTasks == SelectSeq(tasks, LAMBDA t : t.status = "completed")
        failedTasks == SelectSeq(tasks, LAMBDA t : t.status = "failed")
    IN IF Len(completedTasks) = 0 /\ Len(failedTasks) = 0
       THEN IterEnd(c1, p, timedOut)
       ELSE Suspend([c1 EXCEPT !.call[p].failedCount = Len(failedTasks)],
                    p, "reflect_eval")

\* actPhase up to executor.executeTask
ActStart(c, p, timedOut) ==
  LET c1 == SetPhase(c, p, "executing") IN
  IF c1.state.currentPlan = NoPlan THEN ReflectStart(c1, p, timedOut)
  ELSE
    LET nextTask == getNextTask(CurrentTasks(c1))
        ref == <<c1.state.currentPlan, nextTask.id>>
    IN IF nextTask = NoTask THEN ReflectStart(c1, p, timedOut)
       ELSE Suspend(
              Emit(UpdateCurrentPlan([c1 EXCEPT !.state.currentTask = ref,
                                                !.call[p].taskRef = ref],
                                     ref, "in_progress"),
                   p, "task_started", ref),
              p, "act_exec")

\* a mutant of autonomousLoop 114-128: the completion check is missing
AfterPlanWithoutCheck(c, p, timedOut) == ActStart(c, p, timedOut)

\* autonomousLoop 114-128: the completion check, else Act
AfterPlan(c, p, timedOut) ==
  IF c.state.currentPlan # NoPlan /\ isPlanComplete(CurrentTasks(c))
  THEN LET c1 == Emit(SetPhase(c, p, "completed"), p, "plan_completed",
                      c.state.currentPlan)
       IN \* break; the while condition is not evaluated again
          AfterLoop(IF c1.state.iterationCount >= scope.iterations
                    THEN Warn(c1, "Max iterations reached") ELSE c1, p)
  ELSE ActStart(c, p, timedOut)

\* planPhase up to planner.createPlan
PlanStart(c, p) == Suspend(SetPhase(c, p, "planning"), p, "plan_chat")

\* a mutant of autonomousLoop 110-128: an iteration that does not plan goes from
\* Think to Reflect
AfterThinkWithoutAct(c, p, timedOut) ==
  IF c.state.currentPlan = NoPlan \/ c.state.currentPhase = "planning"
  THEN PlanStart(c, p)
  ELSE ReflectStart(c, p, timedOut)

\* autonomousLoop 110-112: Plan only without a plan or in phase planning
AfterThink(c, p, timedOut) ==
  IF c.state.currentPlan = NoPlan \/ c.state.currentPhase = "planning"
  THEN PlanStart(c, p)
  ELSE AfterPlan(c, p, timedOut)

\* ---- what the planning model can reply
\* the priority field of a reply to the loop: absent (or 0, falsy); the order
\* getNextTask gives to different priorities is exercised on the Planner alone
ReplyPriorities == {0}
\* t.priority || 5
PriorityOrDefault(x) == IF x = 0 THEN 5 ELSE x

\* The dependency lists of a reply for task i of n.  Task ids are uuids drawn after
\* the reply was parsed, so a reply's dependency id normally matches no task
\* (AbsentId); the model also lets it name another task of the plan.
LoopDependencies(i, n) ==
  {{}, {AbsentId}} \cup {{j} : j \in (1..n) \ {i}}

\* planData.tasks.map(...): every task pending, ids in list order
TasksOfReply(n, prio, deps) ==
  [i \in 1..n |-> [id |-> i, status |-> "pending",
                   priority |-> PriorityOrDefault(prio[i]),
                   dependencies |-> deps[i]]]

Replies(maxTasks, priorities) ==
  UNION {
    { TasksOfReply(n, prio, deps) :
        prio \in [1..n -> priorities],
        deps \in { d \in [1..n -> SUBSET (0..n)] :
                     \A i \in 1..n : d[i] \in LoopDependencies(i, n) } }
    : n \in 0..maxTasks }

\* one call: plans of up to MaxLoopTasks tasks;
\* several calls: plans of up to MaxReentryTasks tasks
OneCallReplies == Replies(MaxLoopTasks, ReplyPriorities)
ReentryReplies == Replies(MaxReentryTasks, ReplyPriorities)
\* a long run: one plan of MaxLongTasks tasks that depend on nothing
LongReplies ==
  {TasksOfReply(MaxLongTasks, [i \in 1..MaxLongTasks |-> 0],
                [i \in 1..MaxLongTasks |-> {}])}
LoopReplies ==
  IF scope.iterations > maxIterations THEN LongReplies
  ELSE IF scope.calls = 1 THEN OneCallReplies ELSE ReentryReplies

\* the fallback of createPlan when the reply does not parse: the objective as one task
FallbackTasks ==
  <<[id |-> 1, status |-> "pending", priority |-> 5, dependencies |-> {}]>>

\* Planner.createPlan / the success branch of revisePlan: a new Plan object
NewPlan(c, objective, tasks) ==
  LET id == FreshPlanId(c) IN
  [c EXCEPT !.plans = (id :> [objective |-> objective, tasks |-> tasks]) @@ @,
            !.state.currentPlan = id]

\* ---- the steps
\* processDirective up to the first await of autonomousLoop; the caller's code
\* that follows the call runs before the loop goes on
ProcessDirective(p) ==
  /\ call[p].pc = "new"
  /\ p <= scope.calls
  /\ \A q \in 1..(p-1) : call[q].pc # "new"
  /\ IF isRunning
     THEN Commit(Warn([Now EXCEPT !.call[p].pc = "returned"],
                      "Agent is already running, queuing directive"))
     ELSE Commit(Suspend(
            Remember(
              Emit([Now EXCEPT !.isRunning = TRUE,
                               !.state.currentPhase = "thinking",
                               !.state.iterationCount = 0,
                               !.state.totalCost = 0,
                               !.hist[p].accepted = TRUE],
                   p, "directive_received", p),
              p, "working", "New objective"),
            p, "loop_entry"))

\* autonomousLoop: addToWorkingMemory('New objective') has returned
LoopEntry(p, timedOut) ==
  /\ call[p].pc = "loop_entry"
  /\ Commit(LoopHead(Now, p, timedOut))

\* thinkPhase: the chat call has returned
ThinkChat(p, timedOut) ==
  /\ call[p].pc = "think_chat"
  /\ Commit(AfterThink(
       Emit(Remember(Answered([Now EXCEPT !.state.totalCost = @ + callCost],
                              p, callCost),
                     p, "working", "Thinking"),
            p, "thinking_completed", "none"),
       p, timedOut))

\* thinkPhase: the chat call has raised; the catch of thinkPhase logs it
ThinkChatRaised(p, timedOut) ==
  /\ call[p].pc = "think_chat"
  /\ Commit(AfterThink(Now, p, timedOut))

\* planPhase: createPlan has returned a plan (parsed or fallback)
PlanChat(p, tasks, timedOut) ==
  /\ call[p].pc = "plan_chat"
  /\ LET c1 == Remember(NewPlan(Answered(Now, p, callCost), p, tasks),
                        p, "working", "Created plan")
     IN Commit(AfterPlan(Emit(c1, p, "plan_created", c1.state.currentPlan),
                         p, timedOut))

\* planPhase: createPlan's chat call raised; planPhase rethrows, the iteration's
\* catch records it with addToEpisodicMemory, the loop goes on
PlanChatRaised(p, timedOut) ==
  /\ call[p].pc = "plan_chat"
  /\ Commit(LoopHead(Remember(Now, p, "episodic", "Error in iteration"),
                     p, timedOut))

\* actPhase: executeTask has returned
ActExec(p, res, timedOut) ==
  /\ call[p].pc = "act_exec"
  /\ LET c1 == UpdateCurrentPlan(
                 Executed([Now EXCEPT !.state.totalCost = @ + res.cost], p, res.cost),
                 call[p].taskRef,
                 IF res.success THEN "completed" ELSE "failed")
         c2 == Emit(Remember(c1, p, "episodic",
                             IF res.success THEN "Task completed" ELSE "Task failed"),
                    p, IF res.success THEN "task_completed" ELSE "task_failed",
                    call[p].taskRef)
     IN Commit(ReflectStart([c2 EXCEPT !.state.currentTask = NoRef,
                                       !.call[p].taskRef = NoRef],
                            p, timedOut))

\* actPhase: executeTask has raised (it builds its prompt from
\* task.acceptanceCriteria before its try block); the catch of actPhase marks
\* state.currentTask failed and leaves state.currentTask as it is
ActExecRaised(p, timedOut) ==
  /\ call[p].pc = "act_exec"
  /\ LET c1 == IF state.currentTask # NoRef
               THEN UpdateCurrentPlan(Now, state.currentTask, "failed")
               ELSE Now
     IN Commit(ReflectStart([c1 EXCEPT !.call[p].taskRef = NoRef], p, timedOut))

\* Critic.evaluatePlanProgress never raises: what it returns when its chat call
\* raised or the reply did not parse
EvaluationFailed == "Evaluation failed, continuing with current plan"
\* answered: whether the chat call returned a reply
Evaluation(shouldContinue, feedback, answered) ==
  [shouldContinue |-> shouldContinue, feedback |-> feedback, answered |-> answered]
\* shouldContinue: evaluation.shouldContinue !== false
evaluatePlanProgress ==
  {Evaluation(TRUE, "feedback", TRUE), Evaluation(FALSE, "feedback", TRUE),
   Evaluation(TRUE, EvaluationFailed, TRUE), Evaluation(TRUE, EvaluationFailed, FALSE)}

\* a mutant of the test of reflectPhase: the number of failed tasks plays no part
ReplanOnFeedbackOnly(evaluation, failedCount) == ~evaluation.shouldContinue

\* reflectPhase 370: !evaluation.shouldContinue || failedTasks.length > 3
Replan(evaluation, failedCount) ==
  ~evaluation.shouldContinue \/ failedCount > 3

\* reflectPhase: evaluatePlanProgress has returned; revisePlan is called with the
\* plan that is current now
ReflectEval(p, evaluation, timedOut) ==
  /\ call[p].pc = "reflect_eval"
  /\ LET c0 == IF evaluation.answered THEN Answered(Now, p, callCost) ELSE Now
         c1 == Emit(Remember([c0 EXCEPT !.call[p].failedCount = 0],
                             p, "working", "Progress evaluation"),
                    p, "reflection_completed",
                    [shouldContinue |-> evaluation.shouldContinue,
                     feedback |-> evaluation.feedback])
     IN IF Replan(evaluation, call[p].failedCount)
        THEN Commit(Suspend([c1 EXCEPT !.call[p].planArg = state.currentPlan],
                            p, "reflect_revise"))
        ELSE Commit(IterEnd(c1, p, timedOut))

\* reflectPhase: revisePlan has returned a new plan
ReflectRevised(p, tasks, timedOut) ==
  /\ call[p].pc = "reflect_revise"
  /\ LET c1 == Remember(NewPlan(Answered([Now EXCEPT !.call[p].planArg = NoPlan],
                                         p, callCost),
                                plans[call[p].planArg].objective, tasks),
                        p, "episodic", "Plan revised based on reflection")
     IN Commit(IterEnd(Emit(c1, p, "plan_revised", c1.state.currentPlan),
                       p, timedOut))

\* reflectPhase: the revision did not parse; revisePlan has returned its argument
ReflectUnrevised(p, timedOut) ==
  /\ call[p].pc = "reflect_revise"
  /\ LET c1 == Remember(Answered([Now EXCEPT !.state.currentPlan = call[p].planArg,
                                            !.call[p].planArg = NoPlan],
                                 p, callCost),
                        p, "episodic", "Plan revised based on reflection")
     IN Commit(IterEnd(Emit(c1, p, "plan_revised", c1.state.currentPlan),
                       p, timedOut))

\* reflectPhase: revisePlan's chat call raised; the catch of reflectPhase logs it
ReflectReviseRaised(p, timedOut) ==
  /\ call[p].pc = "reflect_revise"
  /\ Commit(IterEnd([Now EXCEPT !.call[p].planArg = NoPlan], p, timedOut))

\* Orchestrator.stop
Stop ==
  Commit([Now EXCEPT
            !.isRunning = FALSE,
            !.state.currentPhase = "idle",
            !.hist = [p \in Calls |->
                        IF call[p].pc \in OutsideLoop THEN @[p]
                        ELSE [@[p] EXCEPT !.stopRequested = TRUE]]])

Step(p) ==
  \/ ProcessDirective(p)
  \/ \E t \in BOOLEAN : LoopEntry(p, t)
  \/ \E t \in BOOLEAN : ThinkChat(p, t)
  \/ \E t \in BOOLEAN : ThinkChatRaised(p, t)
  \/ \E tasks \in LoopReplies \cup {FallbackTasks}, t \in BOOLEAN : PlanChat(p, tasks, t)
  \/ \E t \in BOOLEAN : PlanChatRaised(p, t)
  \/ \E res \in executeTask[callCost], t \in BOOLEAN : ActExec(p, res, t)
  \/ \E t \in BOOLEAN : ActExecRaised(p, t)
  \/ \E ev \in evaluatePlanProgress, t \in BOOLEAN : ReflectEval(p, ev, t)
  \/ \E tasks \in LoopReplies, t \in BOOLEAN : ReflectRevised(p, tasks, t)
  \/ \E t \in BOOLEAN : ReflectUnrevised(p, t)
  \/ \E t \in BOOLEAN : ReflectReviseRaised(p, t)

\* ------------------------------------------------------------------ Planner.createPlan / revisePlan
\* What the planning model replies, as JSON.parse sees it.  A value carries its
\* JSON type in the field json; "text" is a reply that is not JSON (JSON.parse
\* raises SyntaxError), "raised" stands for a chat call that raised instead of
\* replying.  An optional array (tasks, dependencies, acceptanceCriteria) is a
\* record too: absent, not an array, or an array with its items.
Undefined == "undefined"
NoArray == [json |-> "undefined", items |-> <<>>]
NotAnArray == [json |-> "number", items |-> <<>>]
JArray(items) == [json |-> "array", items |-> items]

\* the items of a tasks array: null, a number (every property of it is undefined),
\* an object without any of the fields, an object with all of them
PlanItem(json, description, priority, dependencies, acceptanceCriteria) ==
  [json |-> json, description |-> description, priority |-> priority,
   dependencies |-> dependencies, acceptanceCriteria |-> acceptanceCriteria]
NullItem == PlanItem("null", Undefined, 0, NoArray, NoArray)
NumberItem == PlanItem("number", Undefined, 0, NoArray, NoArray)
EmptyTask == PlanItem("object", Undefined, 0, NoArray, NoArray)
FullTask == PlanItem("object", "step", 3, JArray(<<"an earlier step">>), JArray(<<"done">>))
PlanItems == {NullItem, NumberItem, EmptyTask, FullTask}

PlanReply(json, tasks) == [json |-> json, tasks |-> tasks]
ChatRaised == PlanReply("raised", NoArray)
PlanItemLists == UNION {[1..n -> PlanItems] : n \in 0..MaxPlanItems}
PlanReplies ==
  {PlanReply("text", NoArray), PlanReply("null", NoArray), PlanReply("number", NoArray),
   PlanReply("object", NoArray), PlanReply("object", NotAnArray)}
  \cup {PlanReply("object", JArray(items)) : items \in PlanItemLists}

Objectives == {"Echo hello world", "step"}

\* x || []
OrEmpty(x) == IF x.json = "undefined" THEN <<>> ELSE x.items

\* a mutant of the try block: only a reply that is not JSON raises
ThrowsOnSyntaxErrorOnly(reply) == reply.json = "text"

\* the try block of createPlan / revisePlan raises: JSON.parse on text that is not
\* JSON, planData.tasks on null, .map on a tasks field that is absent or not an
\* array, t.description on a null item
Throws(reply) ==
  \/ reply.json = "text"
  \/ reply.json = "null"
  \/ reply.tasks.json # "array"
  \/ \E i \in 1..Len(reply.tasks.items) : reply.tasks.items[i].json = "null"

\* the uuids the try block has drawn when it raises: one per item up to the null one
DrawnBeforeThrow(reply) ==
  IF reply.json \in {"text", "null"} \/ reply.tasks.json # "array" THEN 0
  ELSE CHOOSE k \in 1..Len(reply.tasks.items) :
         /\ reply.tasks.items[k].json = "null"
         /\ \A j \in 1..(k-1) : reply.tasks.items[j].json # "null"

\* planData.tasks.map(...): the n-th uuid drawn is the number n
MappedTasks(reply, uuids) ==
  [i \in 1..Len(reply.tasks.items) |->
     LET t == reply.tasks.items[i] IN
     [id |-> uuids + i,
      description |-> t.description,
      status |-> "pending",
      priority |-> PriorityOrDefault(t.priority),
      dependencies |-> OrEmpty(t.dependencies),
      acceptanceCriteria |-> OrEmpty(t.acceptanceCriteria)]]

\* what a call of the Planner gives back: it raised, or it returned the plan with
\* this id; objects are the Plan objects afterwards, uuids the number of uuids drawn
PlannerResult(raised, id, objects, uuids) ==
  [raised |-> raised, id |-> id, plans |-> objects, uuids |-> uuids]

\* the try block where it does not raise: the tasks, then the plan
ParsedPlan(objective, reply, objects, uuids) ==
  LET tasks == MappedTasks(reply, uuids)
      id == uuids + Len(tasks) + 1
  IN PlannerResult(FALSE, id,
                   (id :> [id |-> id, objective |-> objective, tasks |-> tasks]) @@ objects,
                   id)

\* the catch block of createPlan: the objective as the one task
FallbackPlan(objective, objects, uuids) ==
  LET id == uuids + 1
  IN PlannerResult(FALSE, id,
                   (id :> [id |-> id, objective |-> objective,
                           tasks |-> <<[id |-> uuids + 2,
                                        description |-> objective,
                                        status |-> "pending",
                                        priority |-> 5,
                                        dependencies |-> <<>>,
                                        acceptanceCriteria |->
                                          <<"Task completed successfully">>]>>])
                   @@ objects,
                   uuids + 2)

\* Planner.createPlan: the chat call is outside the try block
createPlan(objective, reply, objects, uuids) ==
  IF reply = ChatRaised THEN PlannerResult(TRUE, NoPlan, objects, uuids)
  ELSE IF Throws(reply)
       THEN FallbackPlan(objective, objects, uuids + DrawnBeforeThrow(reply))
       ELSE ParsedPlan(objective, reply, objects, uuids)

\* a mutant of revisePlan: the revised tasks are written into the current plan
revisePlanInPlace(currentPlan, reply, objects, uuids) ==
  IF reply = ChatRaised THEN PlannerResult(TRUE, NoPlan, objects, uuids)
  ELSE IF Throws(reply)
       THEN PlannerResult(FALSE, currentPlan, objects, uuids + DrawnBeforeThrow(reply))
       ELSE PlannerResult(FALSE, currentPlan,
                          [objects EXCEPT ![currentPlan].tasks = MappedTasks(reply, uuids)],
                          uuids + Len(reply.tasks.items))

\* Planner.revisePlan: on a reply that does not parse, the plan it was given
revisePlan(currentPlan, reply, objects, uuids) ==
  IF reply = ChatRaised THEN PlannerResult(TRUE, NoPlan, objects, uuids)
  ELSE IF Throws(reply)
       THEN PlannerResult(FALSE, currentPlan, objects, uuids + DrawnBeforeThrow(reply))
       ELSE ParsedPlan(objects[currentPlan].objective, reply, objects, uuids)

\* the latest call: its name, the model's reply, state.currentPlan before it,
\* whether it raised
PlanningOp(name, reply, before, raised) ==
  [name |-> name, reply |-> reply, before |-> before, raised |-> raised]
NoPlanningOp == PlanningOp("none", ChatRaised, NoPlan, FALSE)

NoPlanning ==
  [objective |-> "", plans |-> <<>>, currentPlan |-> NoPlan, uuids |-> 0,
   revisions |-> 0, op |-> NoPlanningOp]
PlanningIdle == planning = NoPlanning

\* ------------------------------------------------------------------ MemoryManager / PersistentMemoryManager
\* A Memory object: importance is in tenths (1.0 is 10).  uuidv4() is the number
\* of Memory objects of the type created so far; metadata, timestamp and the
\* embedding are left out (ENABLE_VECTOR_EMBEDDINGS=false as in tests/setup.ts, so
\* generateEmbedding returns undefined and the search is the ILIKE one).
Memory(id, type, content, importance) ==
  [id |-> id, type |-> type, content |-> content, importance |-> importance]

Managers == {"MemoryManager", "PersistentMemoryManager"}

\* String.prototype.toLowerCase
toLowerCase(text) ==
  [i \in 1..Len(text) |->
     IF \E k \in 1..Len(UpperLetters) : UpperLetters[k] = text[i]
     THEN LowerLetters[CHOOSE k \in 1..Len(UpperLetters) : UpperLetters[k] = text[i]]
     ELSE text[i]]

\* String.prototype.includes
includes(text, query) ==
  \E i \in 0..(Len(text) - Len(query)) :
    \A j \in 1..Len(query) : text[i + j] = query[j]

\* Array.prototype.slice(-limit), limit > 0
LastOf(list, limit) ==
  IF Len(list) <= limit THEN list
  ELSE SubSeq(list, Len(list) - limit + 1, Len(list))

Reversed(list) == [i \in 1..Len(list) |-> list[Len(list) + 1 - i]]

\* sort((a, b) => b.importance - a.importance) / ORDER BY importance DESC
RECURSIVE SortByImportance(_)
SortByImportance(list) ==
  IF list = <<>> THEN <<>>
  ELSE LET m == Head(list)
           sorted == SortByImportance(Tail(list))
       IN SelectSeq(sorted, LAMBDA u : u.importance > m.importance)
          \o <<m>> \o SelectSeq(sorted, LAMBDA u : u.importance <= m.importance)

\* a mutant of the eviction test: importance >= 0.5
DemotedAtHalf(removed) == removed.importance >= 5

\* removed.importance > 0.5
Demoted(removed) == removed.importance > 5

\* MemoryManager.addToEpisodicMemory on the array: push, and shift beyond the bound
PushEpisodic(list, content, id) ==
  LET pushed == Append(list, Memory(id, "episodic", content, 7))
  IN IF Len(pushed) > maxEpisodicMemorySize THEN Tail(pushed) ELSE pushed

\* The table memories: its rows by type, each type in insertion order (every query
\* of the manager names one type, and created_at grows with every insert).
NoRows == [working |-> <<>>, episodic |-> <<>>, semantic |-> <<>>]

\* db.query(INSERT ...): the row is stored, or the query raised and the error was logged
Insert(rows, row, ok) ==
  IF ok THEN [rows EXCEPT ![row.type] = Append(@, row)] ELSE rows

\* SELECT ... WHERE type = $type ORDER BY created_at DESC LIMIT $limit
Select(rows, type, limit) == Reversed(LastOf(rows[type], limit))

\* LIMIT $limit
FirstOf(list, limit) == IF Len(list) <= limit THEN list ELSE SubSeq(list, 1, limit)

\* the latest call on the manager: its name, its text argument, its limit argument,
\* the Memory objects it returned
Answer(op, text, limit, value) ==
  [op |-> op, text |-> text, limit |-> limit, value |-> value]
NoAnswer == Answer("none", <<>>, 0, <<>>)

\* created: the Memory objects created so far, by type; writes: the times a caller
\* wrote the importance of an object it holds; dbErrors: the queries that raised;
\* consolidations: the consolidate calls;
\* evictions: the objects shifted out of working memory, as they were then;
\* episodicWrites: the contents handed to addToEpisodicMemory, by a caller or by an
\* eviction; episodicAdded: those a caller handed over; consolidated: those of
\* them that a consolidate call has come after
NoMemHist ==
  [created |-> [working |-> 0, episodic |-> 0, semantic |-> 0],
   writes |-> 0, dbErrors |-> 0, consolidations |-> 0, evictions |-> <<>>, episodicWrites |-> <<>>,
   episodicAdded |-> {}, consolidated |-> {}]

MemoryIdle ==
  /\ manager = "none"
  /\ enablePersistentMemory = FALSE
  /\ workingMemory = <<>>
  /\ episodicMemory = <<>>
  /\ semanticMemory = <<>>
  /\ workingMemoryCache = <<>>
  /\ db = NoRows
  /\ returned = NoAnswer
  /\ memHist = NoMemHist

\* values of the variables of the other parts while the Orchestrator runs
PlannerIdle == plan = <<>> /\ picked = NotCalled
ShellIdle ==
  /\ allowedCommands = {}
  /\ enableShellSandbox = TRUE
  /\ command = <<>>
  /\ result = NotExecuted
  /\ ran = FALSE
  /\ child = NoChild
  /\ lastChange = NoChange
  /\ executedSince = FALSE

\* the Orchestrator's constructor
OrchestratorConstructed ==
  /\ isRunning = FALSE
  /\ state = NewState
  /\ plans = <<>>
  /\ call = [p \in Calls |-> NewCall]
  /\ hist = [p \in Calls |-> NewHist]
  /\ emits = <<>>
  /\ logs = <<>>
  /\ remembered = <<>>
  /\ exec = NoExec
  /\ retrying = NoRetrying
  /\ snapshot = NoSnapshot

\* the same where the Planner's calls and the memory manager are not looked at
OrchestratorNew ==
  /\ OrchestratorConstructed
  /\ PlanningIdle
  /\ MemoryIdle

OrchestratorInit ==
  /\ OrchestratorNew
  /\ PlannerIdle
  /\ ShellIdle

\* values of the Orchestrator's variables while another part runs alone
OrchestratorIdle ==
  /\ OrchestratorNew
  /\ scope = Scope(0)
  /\ callCost = 0

\* one directive, and stop() at any moment
Init ==
  /\ OrchestratorInit
  /\ scope = Scope(1)
  /\ callCost \in CallCosts

\* several directives, and stop() at any moment
ReentryInit ==
  /\ OrchestratorInit
  /\ scope = Scope(MaxCalls)
  /\ callCost \in {0}

Next ==
  \/ \E p \in Calls : Step(p)
  \/ Stop

Spec == Init /\ [][Next]_vars

ReentrySpec == ReentryInit /\ [][Next]_vars

\* one directive, with a record of the replies its chat calls got and of what
\* they cost
TracedInit ==
  /\ OrchestratorInit
  /\ scope = [Scope(1) EXCEPT !.traced = TRUE]
  /\ callCost \in CallCosts

TracedSpec == TracedInit /\ [][Next]_vars

\* one directive with a budget of MaxLongIterations iterations and a plan of
\* MaxLongTasks tasks, so that more than three tasks can fail
LongInit ==
  /\ OrchestratorInit
  /\ scope = [Scope(1) EXCEPT !.iterations = MaxLongIterations]
  /\ callCost \in {0}

LongSpec == LongInit /\ [][Next]_vars

\* the Planner alone, on every plan of up to MaxTasks tasks
PlannerInit ==
  /\ plan \in PlannerPlans
  /\ picked = NotCalled
  /\ OrchestratorIdle
  /\ ShellIdle

PlannerNext ==
  \/ GetNextTask
  \/ ActPick
  \/ \E i \in 1..MaxTasks, success \in BOOLEAN : ActFinish(i, success)

PlannerSpec == PlannerInit /\ [][PlannerNext]_vars

\* SecureShellExecutor.execute(command)
Execute ==
  /\ \E validation \in {isCommandAllowed(command, allowedCommands, enableShellSandbox)},
        outcome \in Outcomes :
       /\ result' = execute(validation, outcome).result
       /\ ran' = execute(validation, outcome).ran
       /\ child' = IF validation.allowed THEN outcome ELSE NoChild
  /\ executedSince' = TRUE
  /\ UNCHANGED <<command, allowedCommands, enableShellSandbox, lastChange,
                 orchVars, plannerVars, execVars, moreVars>>

\* SecureShellExecutor.addAllowedCommand(c)
AddAllowedCommand(c) ==
  /\ allowedCommands' = allowedCommands \cup {c}
  /\ lastChange' = [op |-> "add", command |-> c]
  /\ executedSince' = FALSE
  /\ UNCHANGED <<command, enableShellSandbox, result, ran, child, orchVars, plannerVars, execVars, moreVars>>

\* a mutant: the entry stays in the set
RemoveAllowedCommandKeeps(c) ==
  /\ lastChange' = [op |-> "remove", command |-> c]
  /\ executedSince' = FALSE
  /\ UNCHANGED <<allowedCommands, command, enableShellSandbox, result, ran, child,
                 orchVars, plannerVars, execVars, moreVars>>

\* SecureShellExecutor.removeAllowedCommand(c)
RemoveAllowedCommand(c) ==
  /\ allowedCommands' = allowedCommands \ {c}
  /\ lastChange' = [op |-> "remove", command |-> c]
  /\ executedSince' = FALSE
  /\ UNCHANGED <<command, enableShellSandbox, result, ran, child, orchVars, plannerVars, execVars, moreVars>>

\* SecureShellExecutor.getAllowedCommands(): the entries of the set (their order,
\* the order of insertion, is left out)
getAllowedCommands == allowedCommands

\* the executor as constructed from a configuration (without the sandbox the
\* whitelist is not read: the empty and the full one stand for all), and the
\* command its caller passes to execute
ShellInit ==
  /\ enableShellSandbox \in BOOLEAN
  /\ allowedCommands \in IF enableShellSandbox
                         THEN SUBSET CommandNames \cup {DefaultAllowedCommands}
                         ELSE {{}, CommandNames}
  /\ command \in Commands
  /\ result = NotExecuted
  /\ ran = FALSE
  /\ child = NoChild
  /\ lastChange = NoChange
  /\ executedSince = FALSE
  /\ OrchestratorIdle
  /\ PlannerIdle

ShellNext == Execute

ShellSpec == ShellInit /\ [][ShellNext]_vars

\* the names addAllowedCommand and removeAllowedCommand are called with
ManagedNames == {W_ls, W_curl}
\* number of words of a command where the whitelist changes at run time
MaxManagedWords == 2
ManagedCommands == {pre \o l : pre \in Prefixes, l \in WordLists(MaxManagedWords)}

\* an executor whose whitelist is changed at run time, between execute calls
WhitelistInit ==
  /\ enableShellSandbox \in BOOLEAN
  /\ allowedCommands \in {{}, {W_rm}, DefaultAllowedCommands}
  /\ command \in ManagedCommands
  /\ result = NotExecuted
  /\ ran = FALSE
  /\ child = NoChild
  /\ lastChange = NoChange
  /\ executedSince = FALSE
  /\ OrchestratorIdle
  /\ PlannerIdle

WhitelistNext ==
  \/ Execute
  \/ \E c \in ManagedNames : AddAllowedCommand(c)
  \/ \E c \in ManagedNames : RemoveAllowedCommand(c)

WhitelistSpec == WhitelistInit /\ [][WhitelistNext]_vars

\* ---- EnhancedExecutor.executeTask: one action per attempt of the loop 406-593
PrimaryRaised ==
  /\ exec.pc = "loop"
  /\ exec' = AttemptRaised(exec)
  /\ UNCHANGED <<retrying, orchVars, plannerVars, shellVars, moreVars>>

PrimaryToolCalls ==
  /\ exec.pc = "loop"
  /\ \E content \in {"", "response.content"}, tools \in ToolReplies :
       /\ Len(exec.requested) + Len(tools) <= MaxRequested
       /\ exec' = AttemptTools(exec, callCost, content, tools)
  /\ UNCHANGED <<retrying, orchVars, plannerVars, shellVars, moreVars>>

PrimaryEmpty ==
  /\ exec.pc = "loop"
  /\ exec' = AttemptEmpty(exec, callCost)
  /\ UNCHANGED <<retrying, orchVars, plannerVars, shellVars, moreVars>>

VerificationRaised ==
  /\ exec.pc = "loop"
  /\ exec' = AttemptUnverified(exec, callCost)
  /\ UNCHANGED <<retrying, orchVars, plannerVars, shellVars, moreVars>>

Verification ==
  /\ exec.pc = "loop"
  /\ \E verification \in VerificationTexts :
       exec' = AttemptVerified(exec, callCost, verification)
  /\ UNCHANGED <<retrying, orchVars, plannerVars, shellVars, moreVars>>

\* Orchestrator.actPhase 259-281: the next task is marked in_progress and handed to
\* executeTask
ActStartTask ==
  /\ exec.pc = "idle"
  /\ LET nextTask == getNextTask(plan) IN
       /\ nextTask # NoTask
       /\ plan' = updateTaskStatus(plan, nextTask.id, "in_progress")
       /\ exec' = StartedExec(nextTask.id)
  /\ UNCHANGED <<picked, retrying, orchVars, shellVars, moreVars>>

\* Orchestrator.actPhase 281-311: executeTask has returned, the task is marked
\* completed or failed
ActRecord ==
  /\ exec.pc = "returned"
  /\ plan' = updateTaskStatus(plan, exec.task,
                              IF exec.result.success THEN "completed" ELSE "failed")
  /\ exec' = NoExec
  /\ UNCHANGED <<picked, retrying, orchVars, shellVars, moreVars>>

\* the plans the executor is run on: every task pending, a task may depend on
\* tasks before it
ExecutorPlans ==
  UNION {
    { [i \in 1..n |-> [id |-> i, status |-> "pending", priority |-> 1,
                       dependencies |-> deps[i]]] :
        deps \in {d \in [1..n -> SUBSET (1..n)] : \A i \in 1..n : d[i] \subseteq 1..(i-1)} }
    : n \in 1..MaxExecTasks }

ExecutorInit ==
  /\ OrchestratorNew
  /\ scope = Scope(0)
  /\ callCost \in CallCosts
  /\ plan \in ExecutorPlans
  /\ picked = NotCalled
  /\ ShellIdle

ExecutorNext ==
  \/ ActStartTask
  \/ PrimaryRaised
  \/ PrimaryToolCalls
  \/ PrimaryEmpty
  \/ VerificationRaised
  \/ Verification
  \/ ActRecord

ExecutorSpec == ExecutorInit /\ [][ExecutorNext]_vars

\* ---- EnhancedExecutor.executeWithRetry
\* 629-636: the result after the for loop
RetriesExhausted(r, e) ==
  [r EXCEPT !.pc = "returned",
            !.result = [success |-> FALSE, output |-> "null",
                        error |-> IF r.lastError = NoExecError
                                  THEN ExecError("Failed after all retries", 0, <<>>)
                                  ELSE r.lastError,
                        toolCalls |-> <<>>, tokensUsed |-> 0, cost |-> 0]]

\* the condition of the for loop, 612: another executeTask call, or the end
RetryLoop(r, e) ==
  IF r.retry < r.maxRetries
  THEN [retrying |-> [r EXCEPT !.pc = "executeTask", !.calls = @ + 1],
        exec |-> StartedExec(0)]
  ELSE [retrying |-> RetriesExhausted(r, e), exec |-> e]

\* executeWithRetry(task, context, maxRetries) up to its first await
ExecuteWithRetry(maxRetries) ==
  /\ retrying.pc = "idle"
  /\ exec.pc = "idle"
  /\ \E next \in {RetryLoop([NoRetrying EXCEPT !.maxRetries = maxRetries], exec)} :
       retrying' = next.retrying /\ exec' = next.exec
  /\ UNCHANGED <<orchVars, plannerVars, shellVars, moreVars>>

\* 613-626: executeTask has returned; a success is returned, a failure leaves its
\* error in lastError and the call waits before the next round
RetryResult ==
  /\ retrying.pc = "executeTask"
  /\ exec.pc = "returned"
  /\ retrying' = IF exec.result.success
                 THEN [retrying EXCEPT !.pc = "returned", !.result = exec.result]
                 ELSE [retrying EXCEPT !.pc = "waiting",
                                       !.lastError = exec.result.error]
  /\ UNCHANGED <<exec, orchVars, plannerVars, shellVars, moreVars>>

\* 626, 612: the wait is over, retry++, and the loop condition
RetryWake ==
  /\ retrying.pc = "waiting"
  /\ \E next \in {RetryLoop([retrying EXCEPT !.retry = @ + 1], exec)} :
       retrying' = next.retrying /\ exec' = next.exec
  /\ UNCHANGED <<orchVars, plannerVars, shellVars, moreVars>>

RetryInit ==
  /\ OrchestratorNew
  /\ scope = Scope(0)
  /\ callCost \in CallCosts
  /\ PlannerIdle
  /\ ShellIdle

RetryNext ==
  \/ \E maxRetries \in 0..MaxRetries : ExecuteWithRetry(maxRetries)
  \/ PrimaryRaised
  \/ PrimaryToolCalls
  \/ PrimaryEmpty
  \/ VerificationRaised
  \/ Verification
  \/ RetryResult
  \/ RetryWake

RetrySpec == RetryInit /\ [][RetryNext]_vars

\* every chat call and every tool call of an executeTask call returns or raises
ExecutorFairSpec ==
  ExecutorInit /\ [][ExecutorNext]_vars /\ WF_vars(ExecutorNext)

\* every call that is suspended is resumed: the model's calls return or raise
FairSpec == Init /\ [][Next]_vars /\ \A p \in Calls : WF_vars(Step(p))

\* ------------------------------------------------------------------ the plans of one call
\* planPhase 222-224, actPhase 266-311 and reflectPhase 372-378 of one call on its
\* own, with the Plan objects in full
NoReply == PlanReply("none", NoArray)

\* planPhase: plan = await createPlan(objective, context); state.currentPlan = plan
\* (a createPlan that raises is rethrown by planPhase: no plan)
CreatePlan(reply) ==
  /\ planning.currentPlan = NoPlan
  /\ \E r \in {createPlan(planning.objective, reply, planning.plans, planning.uuids)} :
       planning' = [planning EXCEPT
                      !.plans = r.plans,
                      !.uuids = r.uuids,
                      !.currentPlan = IF r.raised THEN @ ELSE r.id,
                      !.op = PlanningOp("createPlan", reply, planning.currentPlan,
                                        r.raised)]
  /\ UNCHANGED <<orchVars, plannerVars, shellVars, execVars, memoryVars, snapshot>>

\* actPhase: updateTaskStatus(state.currentPlan, task.id, status), in_progress for
\* a pending task and then completed or failed
UpdateTaskStatus(i, status) ==
  /\ planning.currentPlan # NoPlan
  /\ i \in 1..Len(planning.plans[planning.currentPlan].tasks)
  /\ LET task == planning.plans[planning.currentPlan].tasks[i]
     IN /\ \/ task.status = "pending" /\ status = "in_progress"
           \/ task.status = "in_progress" /\ status \in {"completed", "failed"}
        /\ planning' = [planning EXCEPT
                          !.plans[planning.currentPlan].tasks =
                             updateTaskStatus(@, task.id, status),
                          !.op = PlanningOp("updateTaskStatus", NoReply,
                                            planning.currentPlan, FALSE)]
  /\ UNCHANGED <<orchVars, plannerVars, shellVars, execVars, memoryVars, snapshot>>

\* reflectPhase: revisedPlan = await revisePlan(state.currentPlan, ...);
\* state.currentPlan = revisedPlan (a revisePlan that raises is caught and logged)
RevisePlan(reply) ==
  /\ planning.currentPlan # NoPlan
  /\ planning.revisions < MaxRevisions
  /\ \E r \in {revisePlan(planning.currentPlan, reply, planning.plans, planning.uuids)} :
       planning' = [planning EXCEPT
                      !.plans = r.plans,
                      !.uuids = r.uuids,
                      !.revisions = @ + 1,
                      !.currentPlan = IF r.raised THEN @ ELSE r.id,
                      !.op = PlanningOp("revisePlan", reply, planning.currentPlan,
                                        r.raised)]
  /\ UNCHANGED <<orchVars, plannerVars, shellVars, execVars, memoryVars, snapshot>>

PlanningInit ==
  /\ planning \in {[NoPlanning EXCEPT !.objective = objective] : objective \in Objectives}
  /\ OrchestratorConstructed
  /\ scope = Scope(0)
  /\ callCost = 0
  /\ PlannerIdle
  /\ ShellIdle
  /\ MemoryIdle

PlanningNext ==
  \/ \E reply \in PlanReplies \cup {ChatRaised} : CreatePlan(reply)
  \/ \E i \in 1..MaxPlanItems, status \in Statuses : UpdateTaskStatus(i, status)
  \/ \E reply \in PlanReplies \cup {ChatRaised} : RevisePlan(reply)

PlanningSpec == PlanningInit /\ [][PlanningNext]_vars

\* ------------------------------------------------------------------ the memory manager's calls
\* The calls a caller makes on one manager, one after the other (the Orchestrator
\* awaits each).  With enablePersistentMemory every query of the database either
\* succeeds or raises; the manager catches and logs what a query raises.
Persisted == manager = "PersistentMemoryManager" /\ enablePersistentMemory

\* the number of queries of this call that raised: those that were made and failed
Raised(made, ok) == IF Persisted /\ made /\ ~ok THEN 1 ELSE 0

\* addToWorkingMemory(content): push; with persistence insert the row; beyond the
\* bound shift the oldest out and hand it to addToEpisodicMemory if it is important
AddToWorkingMemory(content, stored, demotedStored) ==
  /\ memHist.created.working < MaxWorkingAdds
  /\ LET list == IF manager = "MemoryManager" THEN workingMemory ELSE workingMemoryCache
         memory == Memory(memHist.created.working + 1, "working", content, 10)
         pushed == Append(list, memory)
         overflow == Len(pushed) > maxWorkingMemorySize
         removed == Head(pushed)
         demote == overflow /\ Demoted(removed)
         kept == IF overflow THEN Tail(pushed) ELSE pushed
         episodic == Memory(memHist.created.episodic + 1, "episodic", removed.content, 7)
         errors == Raised(TRUE, stored) + Raised(demote, demotedStored)
         rows == IF Persisted THEN Insert(db, memory, stored) ELSE db
     IN /\ memHist.dbErrors + errors <= MaxDbErrors
        /\ workingMemory' = IF manager = "MemoryManager" THEN kept ELSE workingMemory
        /\ workingMemoryCache' =
             IF manager = "PersistentMemoryManager" THEN kept ELSE workingMemoryCache
        /\ episodicMemory' =
             IF manager = "MemoryManager" /\ demote
             THEN PushEpisodic(episodicMemory, removed.content, episodic.id)
             ELSE episodicMemory
        /\ db' = IF Persisted /\ demote THEN Insert(rows, episodic, demotedStored) ELSE rows
        /\ returned' = Answer("addToWorkingMemory", content, 0, <<memory>>)
        /\ memHist' = [memHist EXCEPT
                         !.created.working = @ + 1,
                         !.created.episodic = IF demote THEN @ + 1 ELSE @,
                         !.dbErrors = @ + errors,
                         !.evictions = IF overflow THEN Append(@, removed) ELSE @,
                         !.episodicWrites =
                            IF demote THEN Append(@, removed.content) ELSE @]
  /\ UNCHANGED <<manager, enablePersistentMemory, semanticMemory>>
  /\ UNCHANGED <<orchVars, plannerVars, shellVars, execVars, planning, snapshot>>

\* addToEpisodicMemory(content), called by a caller of the manager
AddToEpisodicMemory(content, stored) ==
  /\ Cardinality(memHist.episodicAdded) < MaxEpisodicAdds
  /\ content \notin memHist.episodicAdded
  /\ LET memory == Memory(memHist.created.episodic + 1, "episodic", content, 7)
         errors == Raised(TRUE, stored)
     IN /\ memHist.dbErrors + errors <= MaxDbErrors
        /\ episodicMemory' = IF manager = "MemoryManager"
                             THEN PushEpisodic(episodicMemory, content, memory.id)
                             ELSE episodicMemory
        /\ db' = IF Persisted THEN Insert(db, memory, stored) ELSE db
        /\ returned' = Answer("addToEpisodicMemory", content, 0, <<memory>>)
        /\ memHist' = [memHist EXCEPT
                         !.created.episodic = @ + 1,
                         !.dbErrors = @ + errors,
                         !.episodicWrites = Append(@, content),
                         !.episodicAdded = @ \cup {content}]
  /\ UNCHANGED <<manager, enablePersistentMemory, workingMemory, workingMemoryCache,
                 semanticMemory>>
  /\ UNCHANGED <<orchVars, plannerVars, shellVars, execVars, planning, snapshot>>

\* addToSemanticMemory(content), called by a caller of the manager
AddToSemanticMemory(content, stored) ==
  /\ memHist.created.semantic < MaxSemanticAdds
  /\ LET memory == Memory(memHist.created.semantic + 1, "semantic", content, 9)
         errors == Raised(TRUE, stored)
     IN /\ memHist.dbErrors + errors <= MaxDbErrors
        /\ semanticMemory' = IF manager = "MemoryManager"
                             THEN Append(semanticMemory, memory)
                             ELSE semanticMemory
        /\ db' = IF Persisted THEN Insert(db, memory, stored) ELSE db
        /\ returned' = Answer("addToSemanticMemory", content, 0, <<memory>>)
        /\ memHist' = [memHist EXCEPT !.created.semantic = @ + 1,
                                      !.dbErrors = @ + errors]
  /\ UNCHANGED <<manager, enablePersistentMemory, workingMemory, workingMemoryCache,
                 episodicMemory>>
  /\ UNCHANGED <<orchVars, plannerVars, shellVars, execVars, planning, snapshot>>

\* a read: nothing but the answer (and the count of failed queries) changes
Reads(answer, errors) ==
  /\ memHist.dbErrors + errors <= MaxDbErrors
  /\ returned' = answer
  /\ memHist' = [memHist EXCEPT !.dbErrors = @ + errors]
  /\ UNCHANGED <<manager, enablePersistentMemory, workingMemory, workingMemoryCache,
                 episodicMemory, semanticMemory, db>>
  /\ UNCHANGED <<orchVars, plannerVars, shellVars, execVars, planning, snapshot>>

\* getWorkingMemory(): a copy of the array; with persistence the newest rows of
\* type working, and the cache if the query raises
GetWorkingMemory(ok) ==
  Reads(Answer("getWorkingMemory", <<>>, 0,
               IF manager = "MemoryManager" THEN workingMemory
               ELSE IF ~enablePersistentMemory THEN workingMemoryCache
               ELSE IF ok THEN Select(db, "working", maxWorkingMemorySize)
               ELSE workingMemoryCache),
        Raised(TRUE, ok))

\* getEpisodicMemory(limit): the last entries of the array; in the persistent
\* manager nothing without persistence, the newest rows of type episodic with it,
\* and nothing if the query raises
GetEpisodicMemory(limit, ok) ==
  Reads(Answer("getEpisodicMemory", <<>>, limit,
               IF manager = "MemoryManager" THEN LastOf(episodicMemory, limit)
               ELSE IF ~enablePersistentMemory THEN <<>>
               ELSE IF ok THEN Select(db, "episodic", limit)
               ELSE <<>>),
        Raised(TRUE, ok))

\* memory.content.toLowerCase().includes(query.toLowerCase()) / content ILIKE %query%
Matches(memory, query) == includes(toLowerCase(memory.content), toLowerCase(query))

\* searchSemanticMemory(query): the matching entries, the most important first; in
\* the persistent manager nothing without persistence or if the query raises
SearchSemanticMemory(query, ok) ==
  Reads(Answer("searchSemanticMemory", query, searchLimit,
               IF manager = "MemoryManager"
               THEN SortByImportance(
                      SelectSeq(semanticMemory, LAMBDA m : Matches(m, query)))
               ELSE IF ~enablePersistentMemory THEN <<>>
               ELSE IF ok
               THEN FirstOf(SortByImportance(
                              SelectSeq(db.semantic, LAMBDA r : Matches(r, query))),
                            searchLimit)
               ELSE <<>>),
        Raised(TRUE, ok))

\* consolidate(): every episodic entry with importance > 0.8 is handed to
\* addToSemanticMemory; the persistent manager returns at once without
\* persistence, and gives up if the SELECT raises
Consolidate(ok) ==
  LET important ==
        IF manager = "MemoryManager"
        THEN SelectSeq(episodicMemory, LAMBDA m : m.importance > 8)
        ELSE IF Persisted /\ ok
        THEN SelectSeq(db.episodic, LAMBDA r : r.importance > 8)
        ELSE <<>>
      promoted == [i \in 1..Len(important) |->
                     Memory(memHist.created.semantic + i, "semantic",
                            important[i].content, 9)]
      errors == Raised(TRUE, ok)
  IN /\ memHist.consolidations < MaxConsolidations
     /\ memHist.dbErrors + errors <= MaxDbErrors
     /\ semanticMemory' = IF manager = "MemoryManager"
                          THEN semanticMemory \o promoted ELSE semanticMemory
     /\ db' = IF Persisted THEN [db EXCEPT !.semantic = @ \o promoted] ELSE db
     /\ returned' = Answer("consolidate", <<>>, 0, promoted)
     /\ memHist' = [memHist EXCEPT
                      !.created.semantic = @ + Len(promoted),
                      !.dbErrors = @ + errors,
                      !.consolidations = @ + 1,
                      !.consolidated = @ \cup memHist.episodicAdded]
     /\ UNCHANGED <<manager, enablePersistentMemory, workingMemory, workingMemoryCache,
                    episodicMemory>>
     /\ UNCHANGED <<orchVars, plannerVars, shellVars, execVars, planning, snapshot>>

\* The caller writes the importance of a Memory object it holds: the managers
\* hand out the objects they keep (addToWorkingMemory and addToEpisodicMemory
\* return the stored object, getWorkingMemory copies the array, not the objects).
\* The rows of the database are not objects of the process.  Here the object is
\* the oldest of its array, and for working memory the array is full: the object
\* is the next to be shifted out.
WriteImportance(type, importance) ==
  /\ memHist.writes < MaxWrites
  /\ \/ /\ type = "working" /\ manager = "MemoryManager"
        /\ Len(workingMemory) = maxWorkingMemorySize
        /\ workingMemory' = [workingMemory EXCEPT ![1].importance = importance]
        /\ UNCHANGED <<workingMemoryCache, episodicMemory>>
     \/ /\ type = "working" /\ manager = "PersistentMemoryManager"
        /\ Len(workingMemoryCache) = maxWorkingMemorySize
        /\ workingMemoryCache' = [workingMemoryCache EXCEPT ![1].importance = importance]
        /\ UNCHANGED <<workingMemory, episodicMemory>>
     \/ /\ type = "episodic" /\ manager = "MemoryManager"
        /\ episodicMemory # <<>>
        /\ episodicMemory' = [episodicMemory EXCEPT ![1].importance = importance]
        /\ UNCHANGED <<workingMemory, workingMemoryCache>>
  /\ memHist' = [memHist EXCEPT !.writes = @ + 1]
  /\ UNCHANGED <<manager, enablePersistentMemory, semanticMemory, db, returned>>
  /\ UNCHANGED <<orchVars, plannerVars, shellVars, execVars, planning, snapshot>>

\* ---- what the callers hand over
Tip == <<"T", "i", "p">>
Contents == {Tip, <<"n", "o">>}
WorkingContents == {Tip}
Queries == {<<"i", "p">>, <<"t", "I">>, <<"e">>}
Limits == {1, 10}
\* importances a caller writes: 0.5, 0.9
WrittenImportances == {5, 9}

MemoryInit ==
  /\ manager \in Managers
  /\ enablePersistentMemory \in
       IF manager = "PersistentMemoryManager" THEN BOOLEAN ELSE {FALSE}
  /\ workingMemory = <<>>
  /\ episodicMemory = <<>>
  /\ semanticMemory = <<>>
  /\ workingMemoryCache = <<>>
  /\ db = NoRows
  /\ returned = NoAnswer
  /\ memHist = NoMemHist
  /\ OrchestratorConstructed
  /\ scope = Scope(0)
  /\ callCost = 0
  /\ PlannerIdle
  /\ ShellIdle
  /\ PlanningIdle

MemoryNext ==
  \/ \E content \in WorkingContents, stored, demotedStored \in BOOLEAN :
       AddToWorkingMemory(content, stored, demotedStored)
  \/ \E content \in Contents, stored \in BOOLEAN : AddToEpisodicMemory(content, stored)
  \/ \E content \in Contents, stored \in BOOLEAN : AddToSemanticMemory(content, stored)
  \/ \E ok \in BOOLEAN : GetWorkingMemory(ok)
  \/ \E limit \in Limits, ok \in BOOLEAN : GetEpisodicMemory(limit, ok)
  \/ \E query \in Queries, ok \in BOOLEAN : SearchSemanticMemory(query, ok)
  \/ \E ok \in BOOLEAN : Consolidate(ok)
  \/ \E type \in {"working", "episodic"}, importance \in WrittenImportances :
       WriteImportance(type, importance)

MemorySpec == MemoryInit /\ [][MemoryNext]_vars

\* ------------------------------------------------------------------ Orchestrator.getState
\* getState(): return { ...this.state }, a new object with the fields of the state:
\* the phase and the counters by value, currentPlan and currentTask by reference
GetState ==
  /\ snapshot.taken < MaxSnapshots
  /\ snapshot' = [taken |-> snapshot.taken + 1,
                  state |-> state,
                  seen |-> Shown(state, plans)]
  /\ UNCHANGED <<orchVars, plannerVars, shellVars, execVars, planning, memoryVars>>

\* one directive, stop() and getState() at any moment
SnapshotNext ==
  \/ Next
  \/ GetState

\* chat calls cost nothing: the cost limit plays no part here
SnapshotInit ==
  /\ OrchestratorInit
  /\ scope = Scope(1)
  /\ callCost = 0

SnapshotSpec == SnapshotInit /\ [][SnapshotNext]_vars

\* ------------------------------------------------------------------ directives one after the other
\* await processDirective(directive1); await processDirective(directive2): a
\* directive is given when the call before it has returned; stop() at any moment
SequentialStep(p) ==
  /\ \A q \in 1..(p-1) : call[q].pc = "returned"
  /\ Step(p)

SequentialNext ==
  \/ \E p \in Calls : SequentialStep(p)
  \/ Stop

SequentialSpec == ReentryInit /\ [][SequentialNext]_vars

\* ------------------------------------------------------------------ observations
\* the event `name` is among the events es, emitted by call p
EmittedBy(es, p, name) ==
  \E i \in 1..Len(es) : es[i].name = name /\ es[i].by = p

CountEmittedBy(es, p, name) ==
  Cardinality({i \in 1..Len(es) : es[i].name = name /\ es[i].by = p})

\* call p is inside autonomousLoop
InLoop(p) == call[p].pc \notin OutsideLoop

\* this step is the one in which the accepted call p returns
Returns(p) == InLoop(p) /\ call'[p].pc = "returned"

\* this step starts one of the four phases, or marks a task in_progress, for call p
StartsWork(p) ==
  \E i \in 1..Len(emits') :
    /\ emits'[i].by = p
    /\ \/ emits'[i].name = "phase_changed" /\ emits'[i].arg \in WorkPhases
       \/ emits'[i].name = "task_started"

\* some task of some plan has the status
SomeTaskIs(status) ==
  \E id \in DOMAIN plans : \E i \in 1..Len(plans[id].tasks) :
    plans[id].tasks[i].status = status

\* ------------------------------------------------------------------ C1
\* C1: over every interleaving of processDirective and stop calls at most one
\* autonomous loop is active at any moment, and a processDirective call that
\* arrives while a loop is active returns at once, changes nothing of AgentState
\* and emits no event.
C1_OneLoopAtATime ==
  /\ [](Cardinality({p \in Calls : InLoop(p)}) <= 1)
  /\ [][\A p \in Calls :
          (call[p].pc = "new" /\ call'[p].pc # "new" /\ \E q \in Calls : InLoop(q))
          => /\ call'[p].pc = "returned"
             /\ state' = state
             /\ plans' = plans
             /\ emits' = <<>>]_vars

\* ------------------------------------------------------------------ C2
\* C2: after stop() was called while call p was in the loop, no step of p starts a
\* Think, Plan, Act or Reflect phase or marks a task in_progress.
C2_NoWorkAfterStop ==
  [][\A p \in Calls : hist[p].stopRequested => ~StartsWork(p)]_vars

\* ------------------------------------------------------------------ C3
\* C3: every accepted processDirective call eventually returns; the step in which
\* it returns emits agent_stopped exactly once and leaves isRunning false, and no
\* other step emits agent_stopped for it, so a call that has returned has emitted
\* exactly one agent_stopped and a call still in the loop none.
C3_AgentStoppedOnce ==
  /\ \A p \in Calls :
       hist[p].accepted ~> (call[p].pc = "returned" /\ hist[p].stopped = 1)
  /\ [](\A p \in Calls :
          hist[p].stopped = IF call[p].pc = "returned" /\ hist[p].accepted
                            THEN 1 ELSE 0)
  /\ [][\A p \in Calls :
          /\ Returns(p) => ~isRunning' /\ CountEmittedBy(emits', p, "agent_stopped") = 1
          /\ ~Returns(p) => CountEmittedBy(emits', p, "agent_stopped") = 0]_vars

\* an accepted call has returned from a loop that ended with the completion check,
\* a task of its plan completed: agent_stopped was emitted and isRunning is false
C3_Witness ==
  \E p \in Calls :
    /\ call[p].pc = "returned"
    /\ hist[p].accepted
    /\ hist[p].stopped = 1
    /\ EmittedBy(emits, p, "plan_completed")
    /\ EmittedBy(emits, p, "agent_stopped")
    /\ SomeTaskIs("completed")
    /\ ~isRunning

\* ------------------------------------------------------------------ C4
\* C4: within one processDirective run the loop body is entered at most
\* maxIterations times, and iterationCount never exceeds maxIterations.
C4_AtMostMaxIterations ==
  /\ state.iterationCount <= maxIterations
  /\ \A p \in Calls : hist[p].bodies <= maxIterations

\* ------------------------------------------------------------------ C5
\* the cap is below the cost of one call of the model
CapBelowOneCall == callCost > maxCostPerSession

C6_TerminalPhaseMatchesExit ==
  [][\A p \in Calls :
       Returns(p) =>
         /\ (EmittedBy(emits', p, "plan_completed") /\ ~hist[p].stopRequested)
            => state'.currentPhase = "completed"
         /\ (\/ hist[p].stopRequested
             \/ logs' = <<"Max execution time reached">>
             \/ logs' = <<"Max iterations reached">>
                /\ ~EmittedBy(emits', p, "plan_completed"))
            => state'.currentPhase = "idle"]_vars

\* ------------------------------------------------------------------ C7
\* the dependency id resolves to a task of the plan that is completed
ResolvesToCompleted(tasks, depId) ==
  \E j \in 1..Len(tasks) : tasks[j].id = depId /\ tasks[j].status = "completed"

\* the task at position i is pending and each of its dependencies is a completed
\* task of the plan
Eligible(tasks, i) ==
  /\ tasks[i].status = "pending"
  /\ \A depId \in tasks[i].dependencies : ResolvesToCompleted(tasks, depId)

\* C7: what getNextTask returns is null or a pending task of the plan whose every
\* dependency id resolves to a completed task of the same plan; and a step marks a
\* task in_progress only if the task was pending with every dependency resolved to
\* a completed task, whatever its priority.
C7_DependencySafety ==
  /\ [](picked \notin {NotCalled, NoTask}
         => \E i \in 1..Len(plan) : plan[i] = picked /\ Eligible(plan, i))
  /\ [][\A i \in 1..Len(plan) :
          (plan[i].status # "in_progress" /\ plan'[i].status = "in_progress")
          => Eligible(plan, i)]_vars

\* getNextTask has returned a task while a pending task of higher priority is held
\* back by a dependency that is not a completed task of the plan
C7_Witness ==
  /\ picked \notin {NotCalled, NoTask}
  /\ \E i \in 1..Len(plan) :
       /\ plan[i].status = "pending"
       /\ plan[i].priority > picked.priority
       /\ \E depId \in plan[i].dependencies : ~ResolvesToCompleted(plan, depId)

\* ------------------------------------------------------------------ C8
\* the positions of the eligible tasks of maximal priority
BestEligible(tasks) ==
  {i \in 1..Len(tasks) :
     /\ Eligible(tasks, i)
     /\ \A k \in 1..Len(tasks) : Eligible(tasks, k) => tasks[k].priority <= tasks[i].priority}

\* C8: getNextTask returns null exactly when no task is eligible, and otherwise the
\* first, in list order, of the eligible tasks of maximal priority; two calls on
\* the same plan state return the same task.
C8_NextTaskIsBest ==
  /\ [](picked # NotCalled =>
          IF \A i \in 1..Len(plan) : ~Eligible(plan, i)
          THEN picked = NoTask
          ELSE /\ picked # NoTask
               /\ \E i \in BestEligible(plan) :
                    /\ picked = plan[i]
                    /\ \A k \in BestEligible(plan) : i <= k)
  /\ [][(plan' = plan /\ picked # NotCalled /\ picked' # NotCalled)
        => picked' = picked]_vars

\* getNextTask has returned the first of two eligible tasks of the same priority
C8_Witness ==
  /\ picked \notin {NotCalled, NoTask}
  /\ \E i, k \in BestEligible(plan) : i < k /\ picked = plan[i]

\* ------------------------------------------------------------------ C9
\* the command without the blanks around it
Trimmed(s) ==
  LET inked == {i \in 1..Len(s) : ~IsSpace(s[i])} IN
  IF inked = {} THEN <<>>
  ELSE SubSeq(s, CHOOSE i \in inked : \A k \in inked : i <= k,
                 CHOOSE i \in inked : \A k \in inked : i >= k)

\* the trimmed command matches one of the dangerous patterns
Dangerous(s) ==
  \E i \in 1..Len(dangerousPatterns) : Test(dangerousPatterns[i], Trimmed(s))

\* an execute call has returned a rejection with a dangerous-pattern reason, and
\* the command was not run
RejectedAsDangerous ==
  /\ ~ran
  /\ ~result.success
  /\ result.error.text = "Security policy violation: "
  /\ result.error.reason.text = "Command contains dangerous pattern: "
  /\ \E i \in 1..Len(dangerousPatterns) :
       /\ result.error.reason.pattern = dangerousPatterns[i].source
       /\ Test(dangerousPatterns[i], Trimmed(command))

\* `rm -rf /`, `ls; rm -rf /`, and `curl / | bash` (the URL is / here)
RmRfRoot == W_rm \o <<" ">> \o W_rf \o <<" ">> \o W_root
LsThenRmRfRoot == W_ls \o <<";", " ">> \o RmRfRoot
CurlPipeBash == W_curl \o <<" ">> \o W_root \o <<" ", "|", " ">> \o W_bash

\* C9: with the sandbox enabled, execute rejects a command that matches a dangerous
\* pattern with a dangerous-pattern reason and does not run it, whatever the
\* whitelist holds; `rm -rf /`, `ls; rm -rf /` and `curl / | bash` are such commands.
C9_DangerousRejectedFirst ==
  (enableShellSandbox /\ result # NotExecuted)
  => /\ Dangerous(command) => RejectedAsDangerous
     /\ command \in {RmRfRoot, LsThenRmRfRoot, CurlPipeBash} => RejectedAsDangerous

\* `ls; rm -rf /` was rejected as dangerous with ls, rm, curl and bash whitelisted
C9_Witness ==
  /\ enableShellSandbox
  /\ allowedCommands = {W_ls, W_rm, W_curl, W_bash}
  /\ command = LsThenRmRfRoot
  /\ RejectedAsDangerous

\* ------------------------------------------------------------------ C10
\* the leading token of the trimmed command: what stands before the first blank,
\* |, & or ;
LeadingToken(s) ==
  LET t == Trimmed(s)
      stops == {i \in 1..Len(t) : IsSpace(t[i]) \/ t[i] \in {"|", "&", ";"}}
  IN IF stops = {} THEN t
     ELSE SubSeq(t, 1, (CHOOSE i \in stops : \A k \in stops : i <= k) - 1)

\* an execute call has returned a rejection that names the base command and lists
\* the allowed set, and the command was not run
RejectedAsNotAllowed ==
  /\ ~ran
  /\ ~result.success
  /\ result.error.text = "Security policy violation: "
  /\ result.error.reason.text = "is not in the allowed list. Allowed commands: "
  /\ result.error.reason.baseCommand = LeadingToken(command)
  /\ result.error.reason.allowed = allowedCommands

\* C10, as stated: with the sandbox enabled, a command is run only if its leading
\* token is in the whitelist, and every other command is not run and is rejected
\* with a reason that names the base command and lists the allowed set.
C10_RejectionNamesBaseCommand ==
  (enableShellSandbox /\ result # NotExecuted)
  => /\ ran => LeadingToken(command) \in allowedCommands
     /\ LeadingToken(command) \notin allowedCommands => RejectedAsNotAllowed

\* C10, amended: with the sandbox enabled, a command is run only if its leading
\* token is in the whitelist (and it matches no dangerous pattern); a command whose
\* leading token is not in the whitelist is not run and returns success = false,
\* with a reason that names the base command and lists the allowed set unless the
\* command matches a dangerous pattern: then the reason names the pattern only.
C10_RunOnlyIfWhitelisted ==
  (enableShellSandbox /\ result # NotExecuted)
  => /\ ran => (LeadingToken(command) \in allowedCommands /\ ~Dangerous(command))
     /\ LeadingToken(command) \notin allowedCommands
        => IF Dangerous(command) THEN RejectedAsDangerous ELSE RejectedAsNotAllowed

\* a command with a pipe, of which only the leading token (curl) is looked up, was
\* rejected with a reason that names curl and lists the whitelist, which holds bash
C10_Witness ==
  /\ enableShellSandbox
  /\ W_bash \in allowedCommands
  /\ ~Dangerous(command)
  /\ LeadingToken(command) = W_curl
  /\ \E i \in 1..Len(command) : command[i] = "|"
  /\ RejectedAsNotAllowed


\* ------------------------------------------------------------------ C11
\* C11: with the sandbox enabled, execute rejects the fork bomb `:(){ :|:& };:`
\* with a dangerous-pattern reason that reports the pattern that matched, for every
\* content of the whitelist.
C11_ForkBombIsDangerous ==
  (enableShellSandbox /\ result # NotExecuted /\ command = ForkBomb)
  => RejectedAsDangerous

\* ------------------------------------------------------------------ C12
\* an execute call has returned the failure that states the timeout, with the
\* output the child had written
TimedOut ==
  /\ ~result.success
  /\ result.error.text = "Command timed out after "
  /\ result.error.ms = maxShellExecutionTime
  /\ result.stdout = "error.stdout"

\* `sleep 60` was executed under the default configuration
SleepUnderDefaults ==
  /\ enableShellSandbox
  /\ allowedCommands = DefaultAllowedCommands
  /\ command = SleepSixty
  /\ result # NotExecuted

C13_SandboxOffAllowsAll ==
  (~enableShellSandbox /\ result # NotExecuted)
  => /\ ran
     /\ child \in Outcomes
     /\ result.error.text # "Security policy violation: "
     /\ result.error.reason = NoReason

\* with the sandbox disabled and an empty whitelist, `rm -rf /` was run
C13_Witness ==
  /\ ~enableShellSandbox
  /\ allowedCommands = {}
  /\ command = RmRfRoot
  /\ Dangerous(command)
  /\ ran
  /\ result.success

\* ------------------------------------------------------------------ C14
\* the latest whitelist change was op(c), and execute was called after it with a
\* command that matches no dangerous pattern and whose leading token is c
ExecutedAfter(op, c) ==
  /\ lastChange = [op |-> op, command |-> c]
  /\ executedSince
  /\ ~Dangerous(command)
  /\ LeadingToken(command) = c

\* addAllowedCommand / removeAllowedCommand: c is in (not in) what
\* getAllowedCommands returns afterwards, and no other entry has changed
ChangesOnlyItsEntry ==
  [][\A c \in ManagedNames :
       /\ (lastChange' = [op |-> "add", command |-> c] /\ ~executedSince')
          => getAllowedCommands' = allowedCommands \cup {c}
       /\ (lastChange' = [op |-> "remove", command |-> c] /\ ~executedSince')
          => getAllowedCommands' = allowedCommands \ {c}]_vars

\* C14, as stated: after addAllowedCommand(c) an execute of a non-dangerous command
\* whose leading token is c is run, after removeAllowedCommand(c) it is rejected;
\* getAllowedCommands holds c after the first and not after the second, and
\* neither call changes another entry.
C14_WhitelistMutable ==
  /\ ChangesOnlyItsEntry
  /\ [](\A c \in ManagedNames :
          /\ ExecutedAfter("add", c) => ran
          /\ ExecutedAfter("remove", c) => (~ran /\ ~result.success))

\* C14, amended: the same, where the rejection after removeAllowedCommand(c)
\* is promised with the sandbox enabled only; with the sandbox disabled the command
\* is run although c has left the whitelist.
C14_WhitelistMutableInSandbox ==
  /\ ChangesOnlyItsEntry
  /\ [](\A c \in ManagedNames :
          /\ ExecutedAfter("add", c) => ran
          /\ ExecutedAfter("remove", c)
             => IF enableShellSandbox THEN RejectedAsNotAllowed ELSE ran)

\* ls was removed from the default whitelist, the other entries are still there,
\* and a command that begins with ls was rejected afterwards
C14_Witness ==
  /\ enableShellSandbox
  /\ ExecutedAfter("remove", W_ls)
  /\ getAllowedCommands = DefaultAllowedCommands \ {W_ls}
  /\ RejectedAsNotAllowed

\* ------------------------------------------------------------------ C15
\* executeTask has returned
Returned == exec.pc = "returned"

\* the latest attempt got a text without tool calls from the model and a
\* verification reply for it
LastAttemptVerified ==
  /\ exec.last.kind = "answer"
  /\ exec.last.tools = 0
  /\ exec.lastResponse # ""
  /\ exec.last.verification # <<>>

\* C15, as stated: executeTask returns success = true only if the latest attempt
\* got a verification reply that begins with COMPLETE for a non-empty answer
\* without tool calls, and never when that reply begins with INCOMPLETE.
C15_SuccessOnlyIfCOMPLETE ==
  /\ (Returned /\ exec.result.success)
     => (LastAttemptVerified /\ startsWith(exec.last.verification, V_COMPLETE))
  /\ (Returned /\ startsWith(exec.last.verification, V_INCOMPLETE))
     => ~exec.result.success

\* C15, amended: the same, where the reply is compared in upper case: success =
\* true needs a verification reply that begins with COMPLETE in any letter case
\* ("Complete", "complete: ..."), and a reply that begins with INCOMPLETE in any
\* letter case never yields it.
C15_SuccessOnlyIfVerifiedComplete ==
  /\ (Returned /\ exec.result.success)
     => /\ LastAttemptVerified
        /\ startsWith(toUpperCase(exec.last.verification), V_COMPLETE)
        /\ exec.result.output = exec.lastResponse
  /\ (Returned /\ startsWith(toUpperCase(exec.last.verification), V_INCOMPLETE))
     => ~exec.result.success

\* after a round of tool calls and a verification that reported INCOMPLETE, an
\* answer was verified COMPLETE and executeTask returned success = true
C15_Witness ==
  /\ Returned
  /\ exec.result.success
  /\ exec.last.verification = V_COMPLETE
  /\ exec.verdicts = "other"
  /\ exec.attempts = 3
  /\ Len(exec.result.toolCalls) > 0

\* ------------------------------------------------------------------ C16
\* executeTask makes at most maxAttempts primary calls (attempts counts them) and
\* returns
TerminatesWithinMaxAttempts ==
  /\ [](exec.attempts <= maxAttempts)
  /\ [](exec.pc = "loop" => <>Returned)

\* C16, as stated: executeTask returns after at most 5 primary calls, and when
\* every verification reported INCOMPLETE it returns success = false with an error
\* that names the attempt count.
C16_FailureNamesAttemptCount ==
  /\ TerminatesWithinMaxAttempts
  /\ []((Returned /\ exec.verdicts = "incomplete")
        => (~exec.result.success /\ exec.result.error.attempts = maxAttempts))

\* C16, amended: executeTask returns after at most 5 primary calls, and when every
\* verification reported INCOMPLETE it returns success = false; the error names
\* the attempt count when the 5th attempt ended with a verification ("Task
\* incomplete after 5 attempts") or with a raised call ("Failed after 5
\* attempts"), it is "Max attempts reached without completion" when the 5th
\* attempt was a round of tool calls or an empty reply, and "Cost limit exceeded"
\* when a primary call took the cost above the cap.
C16_FailsAfterMaxAttempts ==
  /\ TerminatesWithinMaxAttempts
  /\ []((Returned /\ exec.verdicts = "incomplete")
        => /\ ~exec.result.success
           /\ \/ /\ exec.result.error = ExecError("Task incomplete after ", maxAttempts,
                                                  exec.last.verification)
                 /\ LastAttemptVerified
                 /\ exec.attempts = maxAttempts
              \/ /\ exec.result.error = ExecError("Failed after ", maxAttempts,
                                                  <<"error.message">>)
                 /\ exec.last.verification = <<>>
                 /\ exec.attempts = maxAttempts
              \/ /\ exec.result.error =
                      ExecError("Max attempts reached without completion", 0, <<>>)
                 /\ exec.last.kind \in {"tools", "empty"}
                 /\ exec.attempts = maxAttempts
              \/ /\ exec.result.error = ExecError("Cost limit exceeded: ", 0, <<>>)
                 /\ exec.totalCost > maxCostPerSession
                 /\ exec.last.verification = <<>>)
  /\ []((Returned /\ ~exec.result.success /\ exec.last.verification # <<>>)
        => exec.result.error.attempts = maxAttempts)

\* five answers were each verified INCOMPLETE, and executeTask returned the
\* failure that names the 5 attempts
C16_Witness ==
  /\ Returned
  /\ exec.verdicts = "incomplete"
  /\ exec.attempts = maxAttempts
  /\ exec.totalTokensUsed = 2 * maxAttempts
  /\ ~exec.result.success
  /\ exec.result.error = ExecError("Task incomplete after ", maxAttempts, V_INCOMPLETE)

\* ------------------------------------------------------------------ C17
\* C17: the running cost is checked after every model call: the loop goes on
\* only with a cost within the cap, a call that takes the cost above the cap ends
\* the task with the cost-limit error, and executeTask never returns
\* success = true with a cost above the cap.
C17_CostCheckedAfterEveryCall ==
  /\ exec.pc = "loop" => exec.totalCost <= maxCostPerSession
  /\ Returned =>
       /\ exec.result.success => exec.result.cost <= maxCostPerSession
       /\ exec.result.cost > maxCostPerSession
          => exec.result.error.text = "Cost limit exceeded: "

\* ------------------------------------------------------------------ C18
\* C18: when executeTask returns, the toolCalls of its result list every tool call
\* the loop came to, in the order of the requests: the tools that returned, the
\* tools that raised, and the tools that were not found.
C18_EveryToolCallLogged ==
  Returned =>
    /\ Len(exec.result.toolCalls) = Len(exec.requested)
    /\ \A i \in 1..Len(exec.result.toolCalls) : exec.result.toolCalls[i].request = i

\* ------------------------------------------------------------------ C19
\* C19: executeWithRetry calls executeTask at most maxRetries times; it returns
\* the first successful result as it is, and after maxRetries failures the last
\* failure as executeTask returned it.
C19_ReturnsLastFailure ==
  /\ retrying.calls <= retrying.maxRetries
  /\ (retrying.pc = "returned" /\ retrying.calls > 0)
     => /\ retrying.result = exec.result
        /\ ~retrying.result.success => retrying.calls = retrying.maxRetries

Malformed(reply) ==
  \/ reply.json # "object"
  \/ reply.tasks.json # "array"
  \/ \E i \in 1..Len(reply.tasks.items) : reply.tasks.items[i].json = "null"

\* the tasks of state.currentPlan in the Planner's calls of one call
PlannedTasks == planning.plans[planning.currentPlan].tasks

\* C21: createPlan does not raise on a malformed reply of the model: whenever the
\* reply cannot be parsed into a task list, it returns a plan with exactly one
\* task, which is pending, has the objective as its description, no dependencies
\* and a non-empty list of acceptance criteria.
C21_FallbackOnMalformedReply ==
  (planning.op.name = "createPlan" /\ Malformed(planning.op.reply)
   /\ planning.op.reply # ChatRaised)
  => /\ ~planning.op.raised
     /\ planning.currentPlan # NoPlan
     /\ Len(PlannedTasks) = 1
     /\ PlannedTasks[1].status = "pending"
     /\ PlannedTasks[1].description = planning.objective
     /\ PlannedTasks[1].dependencies = <<>>
     /\ PlannedTasks[1].acceptanceCriteria # <<>>

\* createPlan has returned the fallback for a reply that is JSON, an object with a
\* tasks array, but with a null among the items
C21_Witness ==
  /\ planning.op.name = "createPlan"
  /\ planning.op.reply.json = "object"
  /\ planning.op.reply.tasks.json = "array"
  /\ Malformed(planning.op.reply)
  /\ planning.currentPlan # NoPlan
  /\ Len(PlannedTasks) = 1
  /\ PlannedTasks[1].description = planning.objective

\* ------------------------------------------------------------------ C22
\* C22: revisePlan returns the plan it was given, unchanged, when the reply does
\* not parse, and otherwise a plan with a new id, the same objective and new tasks
\* that are all pending; the Orchestrator then has the returned plan as
\* currentPlan, and a plan that is not the current one is never written again.
C22_RevisionReplacesThePlan ==
  [][/\ (planning'.revisions = planning.revisions + 1 /\ ~planning'.op.raised)
        => LET old == planning.currentPlan
               new == planning'.currentPlan
           IN /\ planning'.plans[old] = planning.plans[old]
              /\ IF Malformed(planning'.op.reply)
                 THEN new = old /\ planning'.plans = planning.plans
                 ELSE /\ new \notin DOMAIN planning.plans
                      /\ planning'.plans[new].objective = planning.plans[old].objective
                      /\ \A i \in 1..Len(planning'.plans[new].tasks) :
                           /\ planning'.plans[new].tasks[i].status = "pending"
                           /\ planning'.plans[new].tasks[i].id > planning.uuids
     /\ \A id \in DOMAIN planning.plans :
          id # planning.currentPlan => /\ id \in DOMAIN planning'.plans
                                       /\ planning'.plans[id] = planning.plans[id]
    ]_vars

\* a plan with a completed task has been replaced by a revised plan with a task,
\* and has kept its task's status
C22_Witness ==
  /\ planning.op.name = "revisePlan"
  /\ ~planning.op.raised
  /\ ~Malformed(planning.op.reply)
  /\ planning.currentPlan # planning.op.before
  /\ Len(PlannedTasks) > 0
  /\ \E i \in 1..Len(planning.plans[planning.op.before].tasks) :
       planning.plans[planning.op.before].tasks[i].status = "completed"

\* ------------------------------------------------------------------ C23
\* the number of tasks of the plan that are pending or in_progress
Unfinished(tasks) ==
  Cardinality({i \in 1..Len(tasks) : tasks[i].status \in {"pending", "in_progress"}})

\* C23: isPlanComplete(plan) is true exactly when no task of the plan is pending
\* or in_progress, that is when every task is completed or failed; it is true of
\* a plan without tasks.
C23_CompleteIffNothingUnfinished ==
  /\ isPlanComplete(plan) <=> Unfinished(plan) = 0
  /\ plan = <<>> => isPlanComplete(plan)
  /\ (\E i \in 1..Len(plan) : plan[i].status \in {"pending", "in_progress"})
       => ~isPlanComplete(plan)

\* a plan of one failed and one completed task is complete
C23_Witness ==
  /\ Len(plan) = 2
  /\ plan[1].status = "failed"
  /\ plan[2].status = "completed"
  /\ isPlanComplete(plan)

\* ------------------------------------------------------------------ C24
\* the ids of the (at most maxWorkingMemorySize) Memory objects that
\* addToWorkingMemory created last
LatestWorkingIds ==
  {k \in 1..memHist.created.working :
     k > memHist.created.working - maxWorkingMemorySize}

\* C24: working memory never holds more than 10 entries, and after any sequence
\* of addToWorkingMemory calls getWorkingMemory returns at most 10 entries, which
\* are the ones added last.
C24_WorkingMemoryHoldsTheLatest ==
  /\ Len(workingMemory) <= maxWorkingMemorySize
  /\ Len(workingMemoryCache) <= maxWorkingMemorySize
  /\ returned.op = "getWorkingMemory"
       => /\ Len(returned.value) <= maxWorkingMemorySize
          /\ {returned.value[i].id : i \in 1..Len(returned.value)} = LatestWorkingIds

\* ------------------------------------------------------------------ C25
\* C25: in the MemoryManager, an addToWorkingMemory call on a full working memory
\* shifts the oldest entry out; the entry's content is appended to episodic memory
\* if its importance is above 0.5, and episodic memory is left as it is otherwise;
\* a call that does not overflow leaves episodic memory alone; semantic memory is
\* not changed by the call.
C25_EvictionDemotesOrDrops ==
  [][(manager = "MemoryManager"
      /\ memHist'.created.working = memHist.created.working + 1)
     => /\ semanticMemory' = semanticMemory
        /\ IF Len(workingMemory) = maxWorkingMemorySize
           THEN /\ workingMemory' = Append(Tail(workingMemory), returned'.value[1])
                /\ IF Head(workingMemory).importance > 5
                   THEN /\ Len(episodicMemory') = Len(episodicMemory) + 1
                        /\ SubSeq(episodicMemory', 1, Len(episodicMemory)) = episodicMemory
                        /\ episodicMemory'[Len(episodicMemory')].content
                             = Head(workingMemory).content
                   ELSE episodicMemory' = episodicMemory
           ELSE /\ workingMemory' = Append(workingMemory, returned'.value[1])
                /\ episodicMemory' = episodicMemory
    ]_vars

\* two entries have been shifted out of the MemoryManager's working memory, one of
\* importance 0.5 and one of importance 1.0, and episodic memory holds one entry
C25_Witness ==
  /\ manager = "MemoryManager"
  /\ memHist.episodicAdded = {}
  /\ Len(memHist.evictions) = 2
  /\ \E i, j \in 1..2 : /\ memHist.evictions[i].importance = 5
                        /\ memHist.evictions[j].importance = 10
  /\ Len(episodicMemory) = 1

\* ------------------------------------------------------------------ C26
\* C26: in the PersistentMemoryManager, with or without persistence, what
\* getEpisodicMemory(limit) returns holds the contents handed to
\* addToEpisodicMemory last (by an eviction from working memory or by a caller),
\* up to the limit.
C26_EpisodicEntriesAreReturned ==
  (manager = "PersistentMemoryManager" /\ returned.op = "getEpisodicMemory")
  => \A k \in 1..Len(memHist.episodicWrites) :
       k > Len(memHist.episodicWrites) - returned.limit
       => \E j \in 1..Len(returned.value) :
            returned.value[j].content = memHist.episodicWrites[k]

\* ------------------------------------------------------------------ C27
\* C27: once addToEpisodicMemory(c) has been followed by consolidate(), a
\* searchSemanticMemory for a substring of c returns at least one entry.
C27_ConsolidationPromotes ==
  (returned.op = "searchSemanticMemory"
   /\ \E c \in memHist.consolidated : includes(c, returned.text))
  => returned.value # <<>>

\* ------------------------------------------------------------------ C28
\* C28: what the object returned by getState shows does not change afterwards:
\* its phase, its counters, the statuses of the tasks of its currentPlan and its
\* currentTask stay as they were when it was returned, whatever the Orchestrator
\* does later.
C28_SnapshotIsACopy ==
  snapshot.taken > 0 => Shown(snapshot.state, plans) = snapshot.seen

\* ------------------------------------------------------------------ C29
\* C29: the plan a directive's loop takes a task from, and the plan whose
\* completion it reports, was made for that directive (created by its Plan phase
\* or revised from such a plan): its objective is the directive.
C29_PlanIsOfTheDirective ==
  \A i \in 1..Len(emits) :
    /\ emits[i].name = "task_started"
         => plans[emits[i].arg[1]].objective = emits[i].by
    /\ emits[i].name = "plan_completed"
         => plans[emits[i].arg].objective = emits[i].by

\* ------------------------------------------------------------------ C30
\* a task's status stays, or moves from pending to in_progress, or from
\* in_progress to completed or failed
MovesForward(before, after) ==
  \/ after = before
  \/ before = "pending" /\ after = "in_progress"
  \/ before = "in_progress" /\ after \in {"completed", "failed"}

\* C30: in every step of the Orchestrator, with any number of loops under way,
\* the status of every task of every plan stays or moves one step along
\* pending -> in_progress -> completed | failed: no task skips in_progress, and
\* a completed or failed task keeps its status as long as its plan exists, also
\* where the catch block of actPhase (314-323) marks state.currentTask failed.
C30_StatusMovesForward ==
  [][\A id \in DOMAIN plans \cap DOMAIN plans' :
       /\ Len(plans'[id].tasks) = Len(plans[id].tasks)
       /\ \A i \in 1..Len(plans[id].tasks) :
            MovesForward(plans[id].tasks[i].status, plans'[id].tasks[i].status)
    ]_vars


\* ------------------------------------------------------------------ C31
\* the ids a task with one of the ids depends on, directly or through other tasks
RECURSIVE DependsOn(_, _, _)
DependsOn(tasks, ids, steps) ==
  IF steps = 0 THEN ids
  ELSE DependsOn(tasks,
                 ids \cup UNION {FindTask(tasks, id).dependencies : id \in ids},
                 steps - 1)

\* the task with this id depends on itself through its dependencies
InCycle(tasks, id) ==
  id \in DependsOn(tasks, FindTask(tasks, id).dependencies, Len(tasks))

\* task i is pending and one of its dependencies is failed, part of a cycle, or
\* the id of no task of the plan
Blocked(tasks, i) ==
  /\ tasks[i].status = "pending"
  /\ \E depId \in tasks[i].dependencies :
       \/ FindTask(tasks, depId) = NoTask
       \/ FindTask(tasks, depId).status = "failed"
       \/ InCycle(tasks, depId)

HasBlocked(tasks) == \E i \in 1..Len(tasks) : Blocked(tasks, i)

BudgetWarnings ==
  {"Max iterations reached", "Max execution time reached",
   "Max cost per session reached"}

\* C31 as stated: once the current plan holds a pending task with a dependency
\* that is failed, part of a cycle or absent, the loop emits no plan_completed
\* any more.
C31_NoPlanCompletedOnceBlocked ==
  [](  (state.currentPlan # NoPlan /\ HasBlocked(plans[state.currentPlan].tasks))
       => [](\A p \in Calls : ~EmittedBy(emits, p, "plan_completed")))

\* C31, amended: if a plan holds a pending task with a dependency that is failed,
\* part of a cycle or absent, then as long as the plan exists that task stays
\* pending, it is never handed to the executor and no plan_completed is emitted
\* for the plan; and a loop that ends while this plan is the current plan ends
\* because the iteration, time or cost budget is exhausted.  (A revision in
\* Reflect can replace the plan, and the plan that replaces it can complete.)
C31_BlockedTaskIsNeverRun ==
  [][\A id \in DOMAIN plans : \A i \in 1..Len(plans[id].tasks) :
       Blocked(plans[id].tasks, i) =>
         /\ id \in DOMAIN plans' => Blocked(plans'[id].tasks, i)
         /\ \A k \in 1..Len(emits') :
              /\ ~(emits'[k].name = "task_started" /\ emits'[k].arg = <<id, i>>)
              /\ ~(emits'[k].name = "plan_completed" /\ emits'[k].arg = id)
         /\ \A p \in Calls :
              (Returns(p) /\ state.currentPlan = id)
              => \E k \in 1..Len(logs') : logs'[k] \in BudgetWarnings
    ]_vars

\* the loop has run out of iterations on a plan of two tasks that depend on each
\* other, both still pending
C31_Witness ==
  /\ call[1].pc = "returned"
  /\ logs = <<"Max iterations reached">>
  /\ state.currentPlan # NoPlan
  /\ Len(plans[state.currentPlan].tasks) = 2
  /\ \A i \in 1..2 : /\ Blocked(plans[state.currentPlan].tasks, i)
                     /\ InCycle(plans[state.currentPlan].tasks, i)


\* ------------------------------------------------------------------ C32
\* every dependency is the id of a task of the plan and no task depends on itself
Resolvable(tasks) ==
  \A i \in 1..Len(tasks) :
    /\ \A depId \in tasks[i].dependencies : FindTask(tasks, depId) # NoTask
    /\ ~InCycle(tasks, tasks[i].id)

\* the loop has just created a resolvable plan of n tasks in iteration k
CreatedPlan(k, n) ==
  /\ \E p \in Calls : EmittedBy(emits, p, "plan_created")
  /\ state.currentPlan # NoPlan
  /\ state.iterationCount = k
  /\ Len(plans[state.currentPlan].tasks) = n
  /\ Resolvable(plans[state.currentPlan].tasks)

\* one of the conditions of C32 does not hold: a task has failed, Reflect is
\* about to revise the plan, or the time or the cost budget is exhausted
Disturbed ==
  \/ state.currentPlan # NoPlan
     /\ \E i \in 1..Len(plans[state.currentPlan].tasks) :
          plans[state.currentPlan].tasks[i].status = "failed"
  \/ \E p \in Calls : call[p].pc = "reflect_revise"
  \/ \E k \in 1..Len(logs) :
       logs[k] \in {"Max execution time reached", "Max cost per session reached"}

\* plan_completed is emitted in this iteration, every task is completed
CompletedIn(iteration) ==
  /\ \E p \in Calls : EmittedBy(emits, p, "plan_completed")
  /\ state.iterationCount = iteration
  /\ state.currentPlan # NoPlan
  /\ \A i \in 1..Len(plans[state.currentPlan].tasks) :
       plans[state.currentPlan].tasks[i].status = "completed"

\* task i of the plan is the one getNextTask picks: every dependency of it is
\* completed, and no pending task with completed dependencies has a higher
\* priority, or the same priority and an earlier place in the list
PickedInOrder(tasks, i) ==
  /\ \A depId \in tasks[i].dependencies : FindTask(tasks, depId).status = "completed"
  /\ \A j \in 1..Len(tasks) :
       ( /\ j # i
         /\ tasks[j].status = "pending"
         /\ \A depId \in tasks[j].dependencies :
              FindTask(tasks, depId).status = "completed" )
       => \/ tasks[j].priority < tasks[i].priority
          \/ tasks[j].priority = tasks[i].priority /\ i < j

Stepped(p) ==
  \/ call'[p] # call[p]
  \/ \E k \in 1..Len(emits') : emits'[k].by = p

\* the step of p in which the call it was waiting for raised instead of
\* returning: Think's chat call, createPlan, executeTask or revisePlan
\* (evaluatePlanProgress catches what its chat call raises)
RaisedIn(p) ==
  /\ Stepped(p)
  /\ \/ call[p].pc = "think_chat" /\ ~EmittedBy(emits', p, "thinking_completed")
     \/ call[p].pc = "plan_chat" /\ ~EmittedBy(emits', p, "plan_created")
     \/ call[p].pc = "act_exec" /\ ~EmittedBy(emits', p, "task_completed")
                                /\ ~EmittedBy(emits', p, "task_failed")
     \/ call[p].pc = "reflect_revise" /\ ~EmittedBy(emits', p, "plan_revised")

\* C33: when the call a phase was waiting for raises, the same step adds an
\* 'Error in iteration' entry to the episodic memory, and the loop does not end
\* in that step unless the plan is complete or a budget is exhausted.
C33_RaisedIsRecorded ==
  [][\A p \in Calls :
       RaisedIn(p) =>
         /\ \E k \in 1..Len(remembered') :
              remembered'[k] = [type |-> "episodic", text |-> "Error in iteration",
                                by |-> p]
         /\ Returns(p) =>
              \/ EmittedBy(emits', p, "plan_completed")
              \/ \E k \in 1..Len(logs') : logs'[k] \in BudgetWarnings
    ]_vars



\* ------------------------------------------------------------------ C34
\* C34: a directive for which the router has no provider, so that every one of
\* its chat calls has raised 'No AI providers available', ends with an error
\* event (the failure reaches the catch of processDirective) and not because
\* the iteration budget is spent.
C34_NoProviderIsRaisedOutward ==
  [][\A p \in Calls :
       (Returns(p) /\ call[p].pc # "loop_entry" /\ ~hist'[p].answered)
       => /\ EmittedBy(emits', p, "error")
          /\ \A k \in 1..Len(logs') : logs'[k] # "Max iterations reached"
    ]_vars



\* ------------------------------------------------------------------ C35
\* the tasks of the current plan that have this status
WithStatus(status) ==
  IF state.currentPlan = NoPlan THEN {}
  ELSE {i \in 1..Len(plans[state.currentPlan].tasks) :
          plans[state.currentPlan].tasks[i].status = status}

\* the same after the step
WithStatusAfter(status) ==
  IF state'.currentPlan = NoPlan THEN {}
  ELSE {i \in 1..Len(plans'[state'.currentPlan].tasks) :
          plans'[state'.currentPlan].tasks[i].status = status}

\* the step of p in which evaluatePlanProgress returns
Evaluates(p) == call[p].pc = "reflect_eval" /\ Stepped(p)

\* the evaluation that has returned in this step of p
EvaluationOf(p, shouldContinue, feedbacks) ==
  \E k \in 1..Len(emits') :
     /\ emits'[k].name = "reflection_completed"
     /\ emits'[k].by = p
     /\ emits'[k].arg.shouldContinue = shouldContinue
     /\ emits'[k].arg.feedback \in feedbacks

\* Reflect is a no-op without a plan or without a completed or failed task, and
\* calls the critic otherwise
ReflectSkips ==
  \A p \in Calls :
    ( /\ call[p].pc \in {"think_chat", "plan_chat", "act_exec"}
      /\ \E k \in 1..Len(emits') :
           emits'[k] = [name |-> "phase_changed", by |-> p, arg |-> "reflecting"] )
    => /\ call'[p].pc = "reflect_eval"
          <=> WithStatusAfter("completed") \cup WithStatusAfter("failed") # {}
       /\ ~EmittedBy(emits', p, "reflection_completed")
       /\ ~EmittedBy(emits', p, "plan_revised")

\* revisePlan is called exactly when the critic has returned shouldContinue =
\* false or more than 3 tasks of the current plan are failed
RevisesExactlyOnReplan ==
  \A p \in Calls :
    Evaluates(p) =>
      ( call'[p].pc = "reflect_revise"
        <=> \/ EvaluationOf(p, FALSE, {"feedback", EvaluationFailed})
            \/ Cardinality(WithStatus("failed")) > 3 )

\* a revision call that raises leaves currentPlan and its tasks as they were
FailedRevisionKeepsPlan ==
  \A p \in Calls :
    ( /\ call[p].pc = "reflect_revise"
      /\ Stepped(p)
      /\ ~EmittedBy(emits', p, "plan_revised") )
    => /\ state'.currentPlan = state.currentPlan
       /\ state.currentPlan # NoPlan
          => plans'[state.currentPlan] = plans[state.currentPlan]

\* C35 as stated: Reflect does nothing without a plan or without a completed or
\* failed task; otherwise revisePlan is called exactly when the critic returns
\* shouldContinue = false or more than 3 tasks are failed; when the critic has
\* failed no revision is called and currentPlan stays; when the revision call
\* fails currentPlan stays.
C35_CriticFailureKeepsPlan ==
  [][/\ ReflectSkips
     /\ RevisesExactlyOnReplan
     /\ \A p \in Calls :
          (Evaluates(p) /\ EvaluationOf(p, TRUE, {EvaluationFailed}))
          => call'[p].pc # "reflect_revise"
     /\ FailedRevisionKeepsPlan
    ]_vars

\* C35, amended: Reflect does nothing without a plan or without a completed or
\* failed task; otherwise revisePlan is called exactly when the critic returns
\* shouldContinue = false or more than 3 tasks of the current plan are failed.
\* A failure of the critic is returned as shouldContinue = true: the step in
\* which it returns leaves currentPlan as it is, and a revision follows it when
\* and only when more than 3 tasks are failed.  A revision call that raises
\* leaves currentPlan unchanged.
C35_ReviseExactlyOnReplan ==
  [][/\ ReflectSkips
     /\ RevisesExactlyOnReplan
     /\ \A p \in Calls :
          (Evaluates(p) /\ EvaluationOf(p, TRUE, {EvaluationFailed}))
          => /\ state'.currentPlan = state.currentPlan
             /\ plans' = plans
             /\ call'[p].pc = "reflect_revise"
                <=> Cardinality(WithStatus("failed")) > 3
     /\ FailedRevisionKeepsPlan
    ]_vars

\* the critic has failed while four tasks of the plan are failed, and Reflect is
\* waiting for revisePlan
C35_Witness ==
  /\ call[1].pc = "reflect_revise"
  /\ Cardinality(WithStatus("failed")) = 4
  /\ \E k \in 1..Len(emits) :
       /\ emits[k].name = "reflection_completed"
       /\ emits[k].arg = [shouldContinue |-> TRUE, feedback |-> EvaluationFailed]



\* ------------------------------------------------------------------ C36
\* the phase the loop of a call is in at each of its awaits
PhaseAt(pc) ==
  CASE pc = "loop_entry" -> "thinking"
    [] pc = "think_chat" -> "thinking"
    [] pc = "plan_chat" -> "planning"
    [] pc = "act_exec" -> "executing"
    [] pc \in {"reflect_eval", "reflect_revise"} -> "reflecting"
    [] OTHER -> "none"

\* the phases call p goes through in this step: the one it waits in, then the
\* ones its phase_changed events name, in order
PhasesOf(p) ==
  <<PhaseAt(call[p].pc)>>
  \o [k \in 1..Len(SelectSeq(emits', LAMBDA ev : ev.name = "phase_changed")) |->
        SelectSeq(emits', LAMBDA ev : ev.name = "phase_changed")[k].arg]

\* Think, then Plan or Act, Plan then Act, Act then Reflect, Reflect then the
\* Think of the next iteration; the completion check ends the loop after Think
\* or Plan; an iteration whose Plan raises ends there, and the next one starts
\* with Think; the first Think follows the phase processDirective sets
PhaseOrder ==
  {<<"thinking", "planning">>, <<"thinking", "executing">>,
   <<"planning", "executing">>, <<"executing", "reflecting">>,
   <<"reflecting", "thinking">>, <<"thinking", "completed">>,
   <<"planning", "completed">>, <<"planning", "thinking">>,
   <<"thinking", "thinking">>}

\* C36: in every step of the loop of a directive the phases follow each other
\* in the order Think, optional Plan, Act, Reflect, one at a time (the loop waits
\* in the last phase it entered); Think follows Think only at the start of the
\* loop; a task is started only right after Act began, at most one per Act, and
\* it is the only task in_progress when the loop waits for the executor, which
\* is when and only when a task was started; at no other await is a task of the
\* current plan in_progress.
C36_PhasesInOrder ==
  [][\A p \in Calls :
       (InLoop(p) /\ Stepped(p)) =>
         LET phases == PhasesOf(p) IN
         /\ \A k \in 1..(Len(phases) - 1) :
              /\ <<phases[k], phases[k+1]>> \in PhaseOrder
              /\ (phases[k] = "thinking" /\ phases[k+1] = "thinking")
                 => call[p].pc = "loop_entry"
         /\ InLoop(p)' => PhaseAt(call'[p].pc) = phases[Len(phases)]
         /\ \A k \in 1..Len(emits') :
              emits'[k].name = "task_started"
              => /\ k > 1
                 /\ emits'[k-1] = [name |-> "phase_changed", by |-> p,
                                   arg |-> "executing"]
                 /\ k = Len(emits')
         /\ call'[p].pc = "act_exec" <=> EmittedBy(emits', p, "task_started")
         /\ call'[p].pc = "act_exec" =>
              /\ WithStatusAfter("in_progress") = {call'[p].taskRef[2]}
              /\ call'[p].taskRef[1] = state'.currentPlan
         /\ call'[p].pc # "act_exec" => WithStatusAfter("in_progress") = {}
    ]_vars

\* the second iteration has run Think, Act and Reflect on the plan the first
\* one made: its second task is completed and Reflect waits for the critic
C36_Witness ==
  /\ call[1].pc = "reflect_eval"
  /\ state.iterationCount = 2
  /\ WithStatus("completed") = {1, 2}
  /\ Len(emits) = 2
  /\ emits[1].name = "task_completed"
  /\ emits[2] = [name |-> "phase_changed", by |-> 1, arg |-> "reflecting"]



\* ------------------------------------------------------------------ C37
\* C37: a step that changes state.currentPhase to completed (the loop exit) or
\* to idle (stop(), the error path) emits a phase_changed event that carries
\* the new phase.  (The changes to the other phases are made by the phase
\* methods, each of which emits the event in its next statement.)
C37_EndOfLoopIsPublished ==
  [][(state'.currentPhase # state.currentPhase
      /\ state'.currentPhase \in {"completed", "idle"})
     => \E k \in 1..Len(emits') :
          /\ emits'[k].name = "phase_changed"
          /\ emits'[k].arg = state'.currentPhase
    ]_vars



\* ------------------------------------------------------------------ C38
\* C38: whenever no call is inside Act waiting for the executor, which covers
\* every moment from the end of an Act phase to the start of the next one, no
\* task of the current plan is in_progress and state.currentTask is unset.
C38_NoTaskLeftInProgress ==
  (\A p \in Calls : call[p].pc # "act_exec")
  => /\ WithStatus("in_progress") = {}
     /\ state.currentTask = NoRef



\* ------------------------------------------------------------------ C39
\* C39: when processDirective has returned, state.totalCost is the sum of what
\* the chat calls made for the directive have cost: those of Think, createPlan,
\* executeTask, evaluatePlanProgress and revisePlan.  (totalTokensUsed is
\* updated in the same statements as totalCost, from the same replies.)
C39_TotalCostIsTheSum ==
  \A p \in Calls :
    (call[p].pc = "returned" /\ hist[p].accepted)
    => state.totalCost = hist[p].spent



\* ------------------------------------------------------------------ C40
\* C40: isAgentRunning() (the field isRunning) is true exactly while the loop of
\* an accepted directive is under way, from the acceptance of the directive to
\* its agent_stopped event.
C40_RunningWhileInLoop ==
  isRunning <=> \E p \in Calls : InLoop(p)

=============================================================================
